---- MODULE Spec2Model ----
(***************************************************************************)
(* A model of the discovery pipeline of stackquotes-metro-discovery:       *)
(*   - core/rateLimit.ts   RateLimiter.wait and sleep                      *)
(*   - core/fetchPage.ts   fetchHtml, the retrying page fetcher            *)
(*   - run-cpa (3 passes)  the candidate registry, candidatesByDomain      *)
(*   - evaluateCpa.ts      evaluateCpaSite, the admit/rank evaluator       *)
(* Each part has a specification of its own (SpecFetch, SpecRegistry,      *)
(* SpecEval); the variables of the other parts stay at their initial value.*)
(***************************************************************************)
EXTENDS Integers, Sequences, FiniteSets, TLC

VARIABLES
    \* ---- the clock and one RateLimiter instance (core/rateLimit.ts)
    now,            \* Date.now()
    minIntervalMs,  \* RateLimiter.minIntervalMs
    lastRunAt,      \* RateLimiter.lastRunAt
    doneTimes,      \* history: the clock at the last two completions of wait()
    \* ---- one fetchHtml call at a time (core/fetchPage.ts)
    pc,             \* where the call is: idle, loop, limiter_sleep, fetch, body, backoff, returned, raised
    url,            \* argument url
    maxRetries,     \* opts.maxRetries ?? 2
    timeoutMs,      \* opts.timeoutMs ?? 15000
    attempt,        \* local attempt
    res,            \* the response of the attempt under way: [status, url]
    sleepUntil,     \* when the pending sleep() timer is due
    abortAt,        \* when the pending abort timer is due
    result,         \* the FetchResult returned
    trace,          \* history: what the call did, in order
    \* ---- the orchestrator's candidate registry (run-cpa, three passes)
    phase,              \* where main is: pass1, pass2, pass3, trust-proxy, crawl
    candidatesByDomain, \* the Map, as its entries [key, value] in insertion order
    log,                \* history: every sighting handled so far, in order
    prevRegistry,       \* history: candidatesByDomain before the latest sighting
    \* ---- the evaluator (evaluators/evaluateCpa.ts)
    combinedText,       \* the argument of the latest evaluateCpaSite call
    evaled,             \* what that call returned
    earlier,            \* history: the text and the result of the call before it
    calls,              \* history: the text and the result of every call, in order
    \* ---- the trust-proxy miner (trust-proxy/mineTrustProxy.ts)
    mpc,                \* where mineTrustProxyCandidates is: idle, lane, done
    mineSpec,           \* argument spec: enabled, the caps, the number of queries per lane
    lane,               \* the lane being mined: 1 supplier, 2 association, 3 expert
    queryIdx,           \* mineSource: queries of the lane searched so far
    hitsLeft,           \* mineSource: hits of the current query not handled yet
    laneDone,           \* mineSource: the loops were left by break
    out,                \* mineSource: out.length, per lane
    mined,              \* the list returned, as the lane of each candidate
    mineCalls,          \* history: the kinds of call made for mining: search, page, pdf, limiter
    late,               \* history: requests issued with a cap already reached: lane, total
    \* ---- duckDuckGoSearch inside a discovery pass (core/searchDuckDuckGo.ts)
    spc,                \* where the pass is: pass (between queries), fetched, raised
    maxResults,         \* argument maxResults (spec.max_results_per_query)
    queriesDone,        \* queries of the pass handled so far
    page,               \* the .result blocks of the document fetched, in document order
    searchHits,         \* what the latest duckDuckGoSearch returned
    outcomes,           \* history: for each query handled, whether its fetch failed
    \* ---- the crawl of main (run-cpa)
    cpc,                \* where main is in the crawl: crawl, done
    targetCount,        \* spec.target_count
    crawlIdx,           \* candidates of the registry the loop has gone past
    kept,               \* the array kept
    crawlLog,           \* history: kept.length at each page fetch issued
    crawled,            \* history: the candidate and the url of each page fetch of the crawl
    emitted,            \* the list written: kept, sorted and cut
    \* ---- normalizeDomain called on its own (run-cpa)
    normUrl,            \* the argument of the latest call
    normDomain,         \* what that call returned
    normEarlier,        \* history: the argument and the result of the call before it
    \* ---- callers of wait() on the one RateLimiter instance, each in a task of its own
    wpc,                \* where each caller is: idle, sleeping
    wakeAt,             \* when each caller's sleep(remaining) timer is due
    readLast,           \* history: the lastRunAt each caller read on entry
    finished,           \* history: the last two completions of wait(): by, at, read
    \* ---- main of run-cpa (three passes) as a whole: its awaits, one after the other
    rpc,                \* where main is: start, pass1, pass2, pass3, mine, crawl, done, crashed
    runSpec,            \* the RunSpec read: the query lists (or their absence), trust_proxy, target_count
    qIdx,               \* queries of the current pass (or mining lane) handled so far
    mlane,              \* the mining lane under way
    mh,                 \* mining: hits of the current query not handled yet
    fpc,                \* where the call main awaits is: none, wait, request, backoff
    call,               \* that call: the limiter it waits on and its maxRetries
    tries,              \* that call: attempt
    outstanding,        \* the limiter waits and network requests under way
    netUsed,            \* history: a limiter wait or a network request was issued
    nDomains,           \* candidatesByDomain.size
    minedAny,           \* mining produced a candidate
    ridx,               \* crawl: candidates the loop has gone past
    nKept,              \* kept.length
    skipped,            \* history: the candidates whose page fetch failed
    failedKinds,        \* history: the kinds of fetch of main that failed: search, crawl
    nWritten,           \* the length of the list written
    \* ---- candidatesFromHit on one mining hit, and the merge of its candidates
    hpc,                \* where the hit is: idle, mined, merged
    hitIn,              \* the hit: url and title
    hitSource,          \* the lane the hit was found in
    hitCalls,           \* history: the fetches issued for the hit, with their limiter
    hitCands,           \* the TrustProxyCandidates returned for the hit
    \* ---- the limiter instances of one run, and the requests they let through
    cph,                \* where the run is: pass, mine, crawl, done
    limiters,           \* lastRunAt of each RateLimiter instance
    chCall,             \* the request waiting in wait(): its kind and its limiter
    chWake,             \* when the sleep(remaining) timer of that wait is due
    reqs                \* history: each request issued: kind, phase, limiter, time

fetchVars == <<now, minIntervalMs, lastRunAt, doneTimes, pc, url, maxRetries,
               timeoutMs, attempt, res, sleepUntil, abortAt, result, trace>>

registryVars == <<phase, candidatesByDomain, log, prevRegistry>>

evalVars == <<combinedText, evaled, earlier, calls>>

mineVars == <<mpc, mineSpec, lane, queryIdx, hitsLeft, laneDone, out, mined,
              mineCalls, late>>

searchVars == <<spc, maxResults, queriesDone, page, searchHits, outcomes>>

crawlVars == <<cpc, targetCount, crawlIdx, kept, crawlLog, crawled, emitted>>

normVars == <<normUrl, normDomain, normEarlier>>

limiterVars == <<wpc, wakeAt, readLast, finished>>

runVars == <<rpc, runSpec, qIdx, mlane, mh, fpc, call, tries, outstanding, netUsed,
             nDomains, minedAny, ridx, nKept, skipped, failedKinds, nWritten>>

hitVars == <<hpc, hitIn, hitSource, hitCalls, hitCands>>

chanVars == <<cph, limiters, chCall, chWake, reqs>>

extraVars == <<hitVars, chanVars>>

auxVars == <<normVars, limiterVars, runVars, extraVars>>

pipelineVars == <<mineVars, searchVars, crawlVars, auxVars>>

vars == <<fetchVars, registryVars, evalVars, pipelineVars>>

(***************************************************************************)
(* Bounds of the model.                                                    *)
(***************************************************************************)
MaxRetries == 2          \* opts.maxRetries is drawn from -1..MaxRetries
MaxClock == 4000         \* no new call and no idle tick after this clock value
MaxSightings == 3        \* sightings (search hits and proxy candidates) of one run
MaxPhrases == 4          \* phrases of the vocabulary in one evaluated text
MaxComparePhrases == 3   \* the same, where each text is compared with the one before
MaxCalls == 3            \* calls of evaluateCpaSite on texts picked in any order
MaxLaneCap == 2          \* spec.max_candidates_per_source.* is drawn from 0..MaxLaneCap
MaxTotalCap == 2         \* spec.max_candidates_total is drawn from 0..MaxTotalCap
MaxMineHits == 2         \* hits one mining search returns
MaxBlocks == 2           \* .result blocks in one search document
MaxResults == 2          \* spec.max_results_per_query is drawn from 0..MaxResults
MaxCandidates == 3       \* candidates in the registry when the crawl begins
MaxTarget == 1           \* spec.target_count is drawn from 0..MaxTarget
MaxWww == 2              \* leading www labels in a host given to normalizeDomain
MaxCallers == 2          \* tasks that call wait() on the same RateLimiter
MaxPassQueries == 1      \* queries in a pass's list, when the list is there

TickSteps == {500}                 \* how far an idle tick moves the clock
ClockStarts == {1000}              \* Date.now() at start: well past lastRunAt = 0
Intervals == {0, 750, 950}         \* minIntervalMs given to the constructor
Timeouts == {1000}                 \* opts.timeoutMs
Urls == {"https://a.example/"}     \* argument url
FinalUrls == {"https://a.example/", "https://a.example/home"}  \* res.url after redirects
Statuses == {200, 404, 429, 499, 500, 503}                     \* res.status
Bodies == {"", "<html>"}           \* res.text()
ErrorMessages == {"", "fetch failed"}  \* e.message of a network error

Undefined == "<undefined>"         \* an absent optional field of FetchResult
NoResponse == [status |-> 0, url |-> Undefined]
NoResult == [ok |-> FALSE, status |-> -1, url |-> Undefined, html |-> Undefined,
             error |-> Undefined]

(***************************************************************************)
(* evaluators/evaluateCpa.ts.                                              *)
(* A text is modelled as a sequence of phrases of a vocabulary, standing   *)
(* for the string that joins them with " . "; a regular expression of the  *)
(* code is modelled by the phrases of the vocabulary it matches (hits),    *)
(* and, for the one pattern with `.*` in it, by a phrase it needs first    *)
(* and a phrase it needs later in the text (before, after).                *)
(***************************************************************************)
Vocabulary == <<
    "CPA", "top 10", "accounting firm", "construction", "contractors",
    "job costing", "wip", "percentage of completion", "progress billing",
    "retainage", "change orders", "bookkeeping", "quickbooks", "roofing", "hvac",
    "español", "all industries", "personal tax", "1040", "tax preparation",
    "nationwide", "directory", "welcome" >>

\* String.prototype.toLowerCase, on the phrases of the vocabulary
lowerPhrase(w) == IF w = "CPA" THEN "cpa" ELSE w
lowerText(t) == [i \in 1 .. Len(t) |-> lowerPhrase(t[i])]

Re(hits) == [hits |-> hits, before |-> {}, after |-> {}]
ReThen(before, after) == [hits |-> {}, before |-> before, after |-> after]

\* RegExp.prototype.test
test(p, text) ==
    \/ \E i \in 1 .. Len(text) : text[i] \in p.hits
    \/ \E i, j \in 1 .. Len(text) : i < j /\ text[i] \in p.before /\ text[j] \in p.after

\* patterns.some(...); hasAll asks every pattern to match
hasAll(text, patterns) == \A k \in 1 .. Len(patterns) : test(patterns[k], text)
hasAny(text, patterns) == \E k \in 1 .. Len(patterns) : test(patterns[k], text)
countHits(text, patterns) ==
    Cardinality({k \in 1 .. Len(patterns) : test(patterns[k], text)})

cpaIdentityPats == <<
    Re({}),                      \* certified public accountant
    Re({"cpa"}),                 \* cpa(s)?
    Re({"accounting firm"}),     \* accounting firm
    Re({}) >>                    \* accountants?
constructionPats == <<
    Re({"construction"}),        \* construction
    Re({"contractors"}),         \* contractor(s)?
    Re({}),                      \* subcontract(or|ing)
    Re({}),                      \* builder(s)?
    Re({}) >>                    \* trade(s)?
contractorPat == Re({"contractors"})
jobCostingPats == <<
    Re({"job costing"}),         \* job\s*cost(ing)?
    Re({}),                      \* cost\s*code(s)?
    Re({"job costing"}) >>       \* job[-\s]?costing
wipPats == << Re({"wip"}), Re({}) >>
pocPats == << Re({"percentage of completion"}), Re({}) >>
progressBillingPats == << Re({"progress billing"}) >>
retainagePats == << Re({"retainage"}), Re({}) >>
changeOrderPats == << Re({"change orders"}) >>
bookkeepingPats == << Re({"bookkeeping"}), Re({}), Re({}) >>
quickbooksPats == << Re({"quickbooks"}), Re({}) >>
spanishPats == <<
    Re({}),                      \* se habla español
    Re({"español"}),             \* español
    Re({}),                      \* servicios? en español
    Re({}),                      \* lang="es"
    Re({}) >>                    \* /es/
allSmallBizPats == <<
    Re({}),                      \* all small business(es)?
    Re({}),                      \* any small business
    Re({}),                      \* we serve all industries
    Re({"all industries"}) >>    \* all industries
individualTaxHeavyPats == <<
    Re({"personal tax"}),        \* personal tax
    Re({}),                      \* individual tax
    Re({"1040"}),                \* 1040
    Re({"tax preparation"}) >>   \* tax prep(aration)?
nationalFirmPats == <<
    Re({"nationwide"}),          \* nationwide
    Re({}),                      \* serving clients across the country
    Re({}),                      \* multiple offices
    Re({}),                      \* offices? in N states
    Re({}),                      \* global
    Re({}),                      \* international
    ReThen({"top 10"}, {"accounting firm"}) >>   \* top N ... firm
directoryPats == <<
    Re({"top 10"}),              \* top N
    Re({}),                      \* best of
    Re({}),                      \* ranking(s)?
    Re({"directory"}),           \* directory
    Re({}),                      \* list
    Re({}) >>                    \* find a

trades == << "roofing", "hvac", "plumbing", "electrical", "solar", "siding",
             "windows", "gutters", "concrete", "fencing", "deck", "patio",
             "flooring", "drywall", "painting", "remodel", "kitchen", "bathroom" >>
MaxTradeMentions == 12
TradeScoreCap == 12

Min(a, b) == IF a <= b THEN a ELSE b
B2N(b) == IF b THEN 1 ELSE 0

\* detectTrades: the trades the text includes, in list order, at most 12
detectTrades(text) ==
    LET lower == lowerText(text)
        found == SelectSeq(trades, LAMBDA t : \E i \in 1 .. Len(lower) : lower[i] = t)
    IN  SubSeq(found, 1, Min(MaxTradeMentions, Len(found)))

\* the detections: everything evaluateCpaSite derives from the text
detect(text) ==
    LET cpa == hasAny(text, cpaIdentityPats)
        jc == hasAny(text, jobCostingPats)
        wp == hasAny(text, wipPats)
        poc == hasAny(text, pocPats)
        pb == hasAny(text, progressBillingPats)
        ret == hasAny(text, retainagePats)
        co == hasAny(text, changeOrderPats)
        bk == hasAny(text, bookkeepingPats)
        indTaxHits == countHits(text, individualTaxHeavyPats)
        constructionDepthHits ==
            B2N(jc) + B2N(wp) + B2N(poc) + B2N(pb) + B2N(ret) + B2N(co) + B2N(bk)
    IN  [cpa_identity_present |-> cpa,
         construction_language |-> hasAny(text, constructionPats),
         contractor_language |-> test(contractorPat, text),
         job_costing |-> jc,
         wip |-> wp,
         percentage_of_completion |-> poc,
         progress_billing |-> pb,
         retainage |-> ret,
         change_orders |-> co,
         bookkeeping_language |-> bk,
         quickbooks_language |-> hasAny(text, quickbooksPats),
         trade_mentions |-> detectTrades(text),
         spanish_detected |-> hasAny(text, spanishPats),
         all_small_businesses_language |-> hasAny(text, allSmallBizPats),
         individual_tax_focus |-> indTaxHits >= 2 /\ constructionDepthHits = 0,
         national_firm_marketing |-> hasAny(text, nationalFirmPats),
         directory_or_list_site |-> hasAny(text, directoryPats) /\ ~cpa]

ReasonNoIdentity == "No CPA/accounting firm identity detected"
ReasonNoConstruction == "No construction/contractor language detected"
ReasonAllSmallBiz == "Generic 'all small businesses/all industries' positioning"
ReasonIndividualTax == "Appears personal-tax dominant with no construction depth"
ReasonNational == "National/regional firm marketing language (low local trust leverage)"
ReasonDirectory == "Directory/list site (not a firm)"

When(b, r) == IF b THEN <<r>> ELSE <<>>

\* the kill rules: every triggering condition pushes its reason.
\* reasonsFirstOnly stops at the first one.
reasonsFirstOnly(s) ==
    IF ~s.cpa_identity_present THEN <<ReasonNoIdentity>>
    ELSE IF ~s.construction_language THEN <<ReasonNoConstruction>>
    ELSE IF s.all_small_businesses_language THEN <<ReasonAllSmallBiz>>
    ELSE IF s.individual_tax_focus THEN <<ReasonIndividualTax>>
    ELSE IF s.national_firm_marketing THEN <<ReasonNational>>
    ELSE IF s.directory_or_list_site THEN <<ReasonDirectory>>
    ELSE <<>>
reasons(s) ==
    When(~s.cpa_identity_present, ReasonNoIdentity)
    \o When(~s.construction_language, ReasonNoConstruction)
    \o When(s.all_small_businesses_language, ReasonAllSmallBiz)
    \o When(s.individual_tax_focus, ReasonIndividualTax)
    \o When(s.national_firm_marketing, ReasonNational)
    \o When(s.directory_or_list_site, ReasonDirectory)

\* killedIgnoringSmallBiz leaves the all-small-businesses condition out
killedIgnoringSmallBiz(s) ==
    \/ ~s.cpa_identity_present
    \/ ~s.construction_language
    \/ s.individual_tax_focus
    \/ s.national_firm_marketing
    \/ s.directory_or_list_site
killed(s) ==
    \/ ~s.cpa_identity_present
    \/ ~s.construction_language
    \/ s.all_small_businesses_language
    \/ s.individual_tax_focus
    \/ s.national_firm_marketing
    \/ s.directory_or_list_site

\* the ranking score; scoreSpanishPenalty takes the Spanish points off
scoreSpanishPenalty(s) ==
    (IF s.cpa_identity_present THEN 20 ELSE 0)
    + (IF s.construction_language THEN 20 ELSE 0)
    + (IF s.contractor_language THEN 5 ELSE 0)
    + (IF s.job_costing THEN 20 ELSE 0)
    + (IF s.wip THEN 18 ELSE 0)
    + (IF s.percentage_of_completion THEN 18 ELSE 0)
    + (IF s.progress_billing THEN 10 ELSE 0)
    + (IF s.retainage THEN 8 ELSE 0)
    + (IF s.change_orders THEN 10 ELSE 0)
    + (IF s.bookkeeping_language THEN 10 ELSE 0)
    + (IF s.quickbooks_language THEN 6 ELSE 0)
    + (IF Len(s.trade_mentions) > 0
          THEN Min(TradeScoreCap, Len(s.trade_mentions) * 2) ELSE 0)
    - (IF s.spanish_detected THEN 6 ELSE 0)
    - (IF s.all_small_businesses_language THEN 30 ELSE 0)
    - (IF s.individual_tax_focus THEN 25 ELSE 0)
    - (IF s.national_firm_marketing THEN 40 ELSE 0)

score(s) ==
    (IF s.cpa_identity_present THEN 20 ELSE 0)
    + (IF s.construction_language THEN 20 ELSE 0)
    + (IF s.contractor_language THEN 5 ELSE 0)
    + (IF s.job_costing THEN 20 ELSE 0)
    + (IF s.wip THEN 18 ELSE 0)
    + (IF s.percentage_of_completion THEN 18 ELSE 0)
    + (IF s.progress_billing THEN 10 ELSE 0)
    + (IF s.retainage THEN 8 ELSE 0)
    + (IF s.change_orders THEN 10 ELSE 0)
    + (IF s.bookkeeping_language THEN 10 ELSE 0)
    + (IF s.quickbooks_language THEN 6 ELSE 0)
    + (IF Len(s.trade_mentions) > 0
          THEN Min(TradeScoreCap, Len(s.trade_mentions) * 2) ELSE 0)
    + (IF s.spanish_detected THEN 6 ELSE 0)
    - (IF s.all_small_businesses_language THEN 30 ELSE 0)
    - (IF s.individual_tax_focus THEN 25 ELSE 0)
    - (IF s.national_firm_marketing THEN 40 ELSE 0)

evaluateCpaSite(t) ==
    LET signals == detect(lowerText(t))
    IN  [keep |-> ~killed(signals),
         score |-> score(signals),
         reasons |-> reasons(signals),
         signals |-> signals]

\* no text evaluated yet: the result is that of the empty text
IdleEvalVars ==
    /\ combinedText = <<>>
    /\ evaled = evaluateCpaSite(<<>>)
    /\ earlier = [text |-> <<>>, result |-> evaluateCpaSite(<<>>)]
    /\ calls = <<>>

Lanes == <<"supplier", "association", "expert">>
LaneIds == 1 .. Len(Lanes)

NoCalls == {}
NotLate == [lane |-> FALSE, total |-> FALSE]

\* mineTrustProxyCandidates not called: spec.trust_proxy.enabled is false and main
\* takes [] instead
IdleMineVars ==
    /\ mpc = "idle"
    /\ mineSpec = [enabled |-> FALSE, max_candidates_total |-> 0,
                   max_candidates_per_source |-> [l \in LaneIds |-> 0],
                   queries |-> [l \in LaneIds |-> 0]]
    /\ lane = 1
    /\ queryIdx = 0
    /\ hitsLeft = 0
    /\ laneDone = FALSE
    /\ out = [l \in LaneIds |-> 0]
    /\ mined = <<>>
    /\ mineCalls = NoCalls
    /\ late = NotLate

\* no search under way
IdleSearchVars ==
    /\ spc = "pass"
    /\ maxResults = 0
    /\ queriesDone = 0
    /\ page = <<>>
    /\ searchHits = <<>>
    /\ outcomes = <<>>

\* the crawl not begun
IdleCrawlVars ==
    /\ cpc = "crawl"
    /\ targetCount = 0
    /\ crawlIdx = 0
    /\ kept = <<>>
    /\ crawlLog = <<>>
    /\ crawled = <<>>
    /\ emitted = <<>>

\* normalizeDomain not called yet
IdleNormVars ==
    /\ normUrl = [ok |-> FALSE, scheme |-> "", special |-> FALSE, host |-> <<>>, path |-> ""]
    /\ normDomain = <<>>
    /\ normEarlier = [url |-> normUrl, domain |-> <<>>]

\* no task is inside wait()
Callers == 1 .. MaxCallers
IdleLimiterVars ==
    /\ wpc = [c \in Callers |-> "idle"]
    /\ wakeAt = [c \in Callers |-> 0]
    /\ readLast = [c \in Callers |-> 0]
    /\ finished = <<>>

\* main has not been entered
\* an absent query list (a list that is there has its length, 0 or more)
Missing == -1
NoCall == [limiter |-> "none", retries |-> 0]
IdleRunVars ==
    /\ rpc = "start"
    /\ runSpec = [pass1 |-> Missing, pass2 |-> Missing, pass3 |-> Missing,
                  trust |-> [enabled |-> FALSE, queries |-> <<0, 0, 0>>], target |-> 0]
    /\ qIdx = 0
    /\ mlane = 1
    /\ mh = 0
    /\ fpc = "none"
    /\ call = NoCall
    /\ tries = 0
    /\ outstanding = <<>>
    /\ netUsed = FALSE
    /\ nDomains = 0
    /\ minedAny = FALSE
    /\ ridx = 0
    /\ nKept = 0
    /\ skipped = {}
    /\ failedKinds = {}
    /\ nWritten = 0

\* candidatesFromHit not called yet
IdleHitVars ==
    /\ hpc = "idle"
    /\ hitIn = [url |-> [ok |-> FALSE, scheme |-> "", special |-> FALSE, host |-> <<>>,
                         path |-> ""],
                title |-> ""]
    /\ hitSource = ""
    /\ hitCalls = <<>>
    /\ hitCands = <<>>

\* the RateLimiter instances of a run: those of main and those of the miner
LimiterNames == {"search", "crawl", "mine-search", "mine-crawl"}
NoRequest == [kind |-> "none", limiter |-> "none"]
\* no limiter used yet: private lastRunAt = 0
IdleChanVars ==
    /\ cph = "pass"
    /\ limiters = [l \in LimiterNames |-> 0]
    /\ chCall = NoRequest
    /\ chWake = 0
    /\ reqs = <<>>

IdleExtraVars == IdleHitVars /\ IdleChanVars

IdleAuxVars == IdleNormVars /\ IdleLimiterVars /\ IdleRunVars /\ IdleExtraVars

IdlePipelineVars == IdleMineVars /\ IdleSearchVars /\ IdleCrawlVars /\ IdleAuxVars

(***************************************************************************)
(* core/rateLimit.ts and core/fetchPage.ts.                                *)
(***************************************************************************)
DefaultTimeoutMs == 15000
DefaultMaxRetries == 2
BackoffBaseMs == 500

Max(a, b) == IF a >= b THEN a ELSE b

Ev(e, n) == [ev |-> e, n |-> n]

\* res.ok: the status is in the range 200-299
ResOk(status) == status >= 200 /\ status <= 299

\* the retry condition on a non-OK response; RetryableAnyError retries every
\* client error too
RetryableAnyError(status) == status >= 400
Retryable(status) == status = 429 \/ status >= 500

\* while (attempt <= maxRetries); LoopConditionOffByOne stops one attempt early
LoopConditionOffByOne == attempt < maxRetries
LoopCondition == attempt <= maxRetries

\* RateLimiter.wait: remaining = minIntervalMs - elapsed, elapsed = now - lastRunAt;
\* remainingSwapped subtracts the other way round
remainingSwapped(nw) == (nw - lastRunAt) - minIntervalMs
remaining(nw) == minIntervalMs - (nw - lastRunAt)

Push2(s, t) == IF Len(s) >= 2 THEN <<s[Len(s)], t>> ELSE Append(s, t)

\* wait() completes at clock t (this.lastRunAt = Date.now()) and fetch(url, ...)
\* is issued with its abort timer armed: attempt number k
WaitReturnsAndFetch(t, k) ==
    /\ now' = t
    /\ lastRunAt' = t
    /\ doneTimes' = Push2(doneTimes, t)
    /\ abortAt' = t + timeoutMs
    /\ pc' = "fetch"
    /\ trace' = trace \o <<Ev("wait", 0), Ev("request", k)>>

\* return { ok, status, url, html?, error? }
Return(r) ==
    /\ result' = r
    /\ pc' = "returned"
    /\ trace' = Append(trace, Ev("return", r.status))

\* ---- fetchHtml is called (by a serialized caller: the previous call returned)
StartCall ==
    /\ pc \in {"idle", "returned"}
    /\ now <= MaxClock
    /\ url' \in Urls
    /\ maxRetries' \in (-1 .. MaxRetries)
    /\ timeoutMs' \in Timeouts
    /\ attempt' = 0
    /\ pc' = "loop"
    /\ result' = NoResult
    /\ res' = NoResponse
    /\ trace' = <<>>
    /\ UNCHANGED <<now, minIntervalMs, lastRunAt, doneTimes, sleepUntil, abortAt>>

\* ---- while (attempt <= maxRetries) { attempt++; await limiter.wait(); fetch(...) }
\* and the fall-through return after the loop.
\* BeginAttemptWaitOnce acquires the limiter once per call, not once per attempt.
BeginAttemptWaitOnce ==
    /\ pc = "loop"
    /\ IF LoopCondition
       THEN /\ attempt' = attempt + 1
            /\ IF attempt = 0 /\ remaining(now) > 0
               THEN /\ pc' = "limiter_sleep"
                    /\ sleepUntil' = now + remaining(now)
                    /\ UNCHANGED <<now, lastRunAt, doneTimes, abortAt, trace>>
               ELSE IF attempt = 0
               THEN /\ WaitReturnsAndFetch(now, attempt + 1)
                    /\ UNCHANGED sleepUntil
               ELSE /\ abortAt' = now + timeoutMs
                    /\ pc' = "fetch"
                    /\ trace' = Append(trace, Ev("request", attempt + 1))
                    /\ UNCHANGED <<now, lastRunAt, doneTimes, sleepUntil>>
            /\ UNCHANGED result
       ELSE /\ Return([ok |-> FALSE, status |-> 0, url |-> url, html |-> Undefined,
                       error |-> "unknown error"])
            /\ UNCHANGED <<now, lastRunAt, doneTimes, attempt, sleepUntil, abortAt>>
    /\ UNCHANGED <<minIntervalMs, url, maxRetries, timeoutMs, res>>

BeginAttempt ==
    /\ pc = "loop"
    /\ IF LoopCondition
       THEN /\ attempt' = attempt + 1
            /\ IF remaining(now) > 0
               THEN /\ pc' = "limiter_sleep"
                    /\ sleepUntil' = now + remaining(now)
                    /\ UNCHANGED <<now, lastRunAt, doneTimes, abortAt, trace>>
               ELSE /\ WaitReturnsAndFetch(now, attempt + 1)
                    /\ UNCHANGED sleepUntil
            /\ UNCHANGED result
       ELSE /\ Return([ok |-> FALSE, status |-> 0, url |-> url, html |-> Undefined,
                       error |-> "unknown error"])
            /\ UNCHANGED <<now, lastRunAt, doneTimes, attempt, sleepUntil, abortAt>>
    /\ UNCHANGED <<minIntervalMs, url, maxRetries, timeoutMs, res>>

\* ---- the limiter's sleep(remaining) timer fires, not before it is due
WaitWake ==
    /\ pc = "limiter_sleep"
    /\ WaitReturnsAndFetch(Max(now, sleepUntil), attempt)
    /\ UNCHANGED <<minIntervalMs, url, maxRetries, timeoutMs, attempt, res,
                   sleepUntil, result>>

\* ---- catch (e) at clock t: retry while attempts remain, else return status 0.
\* HandleErrorRethrow lets the error of the last attempt escape.
HandleErrorRethrow(msg, t) ==
    /\ IF attempt <= maxRetries
       THEN /\ pc' = "backoff"
            /\ sleepUntil' = t + BackoffBaseMs * attempt
            /\ trace' = trace \o <<Ev("error", 0), Ev("sleep", BackoffBaseMs * attempt)>>
            /\ UNCHANGED result
       ELSE /\ pc' = "raised"
            /\ trace' = Append(trace, Ev("error", 0))
            /\ UNCHANGED <<sleepUntil, result>>

HandleError(msg, t) ==
    /\ IF attempt <= maxRetries
       THEN /\ pc' = "backoff"
            /\ sleepUntil' = t + BackoffBaseMs * attempt
            /\ trace' = trace \o <<Ev("error", 0), Ev("sleep", BackoffBaseMs * attempt)>>
            /\ UNCHANGED result
       ELSE /\ result' = [ok |-> FALSE, status |-> 0, url |-> url, html |-> Undefined,
                          error |-> msg]
            /\ pc' = "returned"
            /\ trace' = trace \o <<Ev("error", 0), Ev("return", 0)>>
            /\ UNCHANGED sleepUntil

\* ---- fetch resolves with a response: clearTimeout, then the status is examined
\* (HandleResponseFlatBackoff sleeps the base delay whatever the attempt)
HandleResponseFlatBackoff(status, finalUrl) ==
    /\ res' = [status |-> status, url |-> finalUrl]
    /\ IF ~ResOk(status)
       THEN IF Retryable(status) /\ attempt <= maxRetries
            THEN /\ pc' = "backoff"
                 /\ sleepUntil' = now + BackoffBaseMs
                 /\ trace' = trace \o <<Ev("status", status), Ev("sleep", BackoffBaseMs)>>
                 /\ UNCHANGED result
            ELSE /\ result' = [ok |-> FALSE, status |-> status, url |-> finalUrl,
                               html |-> Undefined, error |-> "HTTP"]
                 /\ pc' = "returned"
                 /\ trace' = trace \o <<Ev("status", status), Ev("return", status)>>
                 /\ UNCHANGED sleepUntil
       ELSE /\ pc' = "body"
            /\ trace' = Append(trace, Ev("status", status))
            /\ UNCHANGED <<sleepUntil, result>>

HandleResponse(status, finalUrl) ==
    /\ res' = [status |-> status, url |-> finalUrl]
    /\ IF ~ResOk(status)
       THEN IF Retryable(status) /\ attempt <= maxRetries
            THEN /\ pc' = "backoff"
                 /\ sleepUntil' = now + BackoffBaseMs * attempt
                 /\ trace' = trace \o <<Ev("status", status),
                                        Ev("sleep", BackoffBaseMs * attempt)>>
                 /\ UNCHANGED result
            ELSE /\ result' = [ok |-> FALSE, status |-> status, url |-> finalUrl,
                               html |-> Undefined, error |-> "HTTP"]
                 /\ pc' = "returned"
                 /\ trace' = trace \o <<Ev("status", status), Ev("return", status)>>
                 /\ UNCHANGED sleepUntil
       ELSE /\ pc' = "body"
            /\ trace' = Append(trace, Ev("status", status))
            /\ UNCHANGED <<sleepUntil, result>>

FetchResponds ==
    /\ pc = "fetch"
    /\ \E status \in Statuses, finalUrl \in FinalUrls : HandleResponse(status, finalUrl)
    /\ UNCHANGED <<now, minIntervalMs, lastRunAt, doneTimes, url, maxRetries,
                   timeoutMs, attempt, abortAt>>

\* ---- fetch rejects with a network error
FetchFails ==
    /\ pc = "fetch"
    /\ \E msg \in ErrorMessages : HandleError(msg, now)
    /\ UNCHANGED <<now, minIntervalMs, lastRunAt, doneTimes, url, maxRetries,
                   timeoutMs, attempt, res, abortAt>>

\* ---- the abort timer fires while fetch is pending: AbortError, reported as "timeout"
FetchTimesOut ==
    /\ pc = "fetch"
    /\ now' = Max(now, abortAt)
    /\ HandleError("timeout", Max(now, abortAt))
    /\ UNCHANGED <<minIntervalMs, lastRunAt, doneTimes, url, maxRetries, timeoutMs,
                   attempt, res, abortAt>>

\* ---- await res.text() resolves
BodyRead ==
    /\ pc = "body"
    /\ \E html \in Bodies :
          Return([ok |-> TRUE, status |-> res.status, url |-> res.url, html |-> html,
                  error |-> Undefined])
    /\ UNCHANGED <<now, minIntervalMs, lastRunAt, doneTimes, url, maxRetries,
                   timeoutMs, attempt, res, sleepUntil, abortAt>>

\* ---- await res.text() rejects (the connection breaks while the body is read)
BodyFails ==
    /\ pc = "body"
    /\ \E msg \in ErrorMessages : HandleError(msg, now)
    /\ UNCHANGED <<now, minIntervalMs, lastRunAt, doneTimes, url, maxRetries,
                   timeoutMs, attempt, res, abortAt>>

\* ---- the backoff sleep(500 * attempt) timer fires; continue
BackoffWake ==
    /\ pc = "backoff"
    /\ now' = Max(now, sleepUntil)
    /\ pc' = "loop"
    /\ UNCHANGED <<minIntervalMs, lastRunAt, doneTimes, url, maxRetries, timeoutMs,
                   attempt, res, sleepUntil, abortAt, result, trace>>

\* ---- time passes (while the call is suspended, or between calls)
Tick ==
    /\ \E d \in TickSteps : now + d <= MaxClock /\ now' = now + d
    /\ UNCHANGED <<minIntervalMs, lastRunAt, doneTimes, pc, url, maxRetries,
                   timeoutMs, attempt, res, sleepUntil, abortAt, result, trace>>

InitFetchVars ==
    /\ now \in ClockStarts
    /\ minIntervalMs \in Intervals
    /\ lastRunAt = 0
    /\ doneTimes = <<>>
    /\ pc = "idle"
    /\ url \in Urls
    /\ maxRetries = DefaultMaxRetries
    /\ timeoutMs = DefaultTimeoutMs
    /\ attempt = 0
    /\ res = NoResponse
    /\ sleepUntil = 0
    /\ abortAt = 0
    /\ result = NoResult
    /\ trace = <<>>

\* no registry yet: main has not run
IdleRegistryVars ==
    /\ phase = "pass1"
    /\ candidatesByDomain = <<>>
    /\ log = <<>>
    /\ prevRegistry = <<>>

InitFetch == InitFetchVars /\ IdleRegistryVars /\ IdleEvalVars /\ IdlePipelineVars

NextFetch ==
    \/ StartCall /\ UNCHANGED <<registryVars, evalVars, pipelineVars>>
    \/ BeginAttempt /\ UNCHANGED <<registryVars, evalVars, pipelineVars>>
    \/ WaitWake /\ UNCHANGED <<registryVars, evalVars, pipelineVars>>
    \/ FetchResponds /\ UNCHANGED <<registryVars, evalVars, pipelineVars>>
    \/ FetchFails /\ UNCHANGED <<registryVars, evalVars, pipelineVars>>
    \/ FetchTimesOut /\ UNCHANGED <<registryVars, evalVars, pipelineVars>>
    \/ BodyRead /\ UNCHANGED <<registryVars, evalVars, pipelineVars>>
    \/ BodyFails /\ UNCHANGED <<registryVars, evalVars, pipelineVars>>
    \/ BackoffWake /\ UNCHANGED <<registryVars, evalVars, pipelineVars>>
    \/ Tick /\ UNCHANGED <<registryVars, evalVars, pipelineVars>>

SpecFetch == InitFetch /\ [][NextFetch]_vars

\* what the process itself does next: a turn of the loop, or a timer of its own
\* that fires (the limiter's sleep, the abort timer armed for the pending
\* fetch, the backoff sleep).  The event loop runs these when they are due;
\* when the server answers, and whether it does, is not the program's to say.
TimerOrLoopStep ==
    /\ BeginAttempt \/ WaitWake \/ FetchTimesOut \/ BackoffWake
    /\ UNCHANGED <<registryVars, evalVars, pipelineVars>>

SpecFetchFair == SpecFetch /\ WF_vars(TimerOrLoopStep)


(***************************************************************************)
(* The candidate registry of the three-pass orchestrator (run-cpa).        *)
(* A URL string is modelled by what `new URL` makes of it: whether it      *)
(* parses, whether its scheme is special (http, https: the parser          *)
(* lower-cases the host), and its host as dot-separated labels. A domain   *)
(* is a sequence of labels, the empty string the empty sequence.           *)
(***************************************************************************)
SearchIntervalMs == 950
CrawlIntervalMs == 750

U(scheme, special, host, path) ==
    [ok |-> TRUE, scheme |-> scheme, special |-> special, host |-> host, path |-> path]
\* a string `new URL` rejects
Unparseable == [ok |-> FALSE, scheme |-> "", special |-> FALSE, host |-> <<>>,
                path |-> "not a url"]
\* the falsy home url: null (toHomeUrl) or "" (home_url of a proxy candidate)
NullUrl == [ok |-> FALSE, scheme |-> "", special |-> FALSE, host |-> <<>>, path |-> ""]

\* the hits of the model, as duckDuckGoSearch returns them: url and non-empty title
Hit(u, title) == [url |-> u, title |-> title]
Hits == {
    Hit(U("https", TRUE, <<"acme", "com">>, "/"), "Home"),
    Hit(U("https", TRUE, <<"www", "acme", "com">>, "/about"), "Acme CPA"),
    Hit(U("https", TRUE, <<"bob", "biz">>, "/cpa"), "Home"),
    Hit(U("https", TRUE, <<"yelp", "com">>, "/biz/acme"), "Acme CPA"),
    Hit(U("https", TRUE, <<"m", "yelp", "com">>, "/acme"), "Home"),
    Hit(Unparseable, "Home") }
HitUrls == {h.url : h \in Hits}
FirmNames == {"Acme Tax"}          \* firm-name hints of the miner
Sources == {"supplier"}            \* lanes of the miner
Metro == "Houston"

\* String.prototype.toLowerCase, on the labels of the model
LowerLabel(l) ==
    CASE l = "WWW" -> "www"
      [] l = "Acme" -> "acme"
      [] OTHER -> l
toLowerCase(d) == [i \in 1 .. Len(d) |-> LowerLabel(d[i])]

\* url.hostname
hostname(u) == IF u.special THEN toLowerCase(u.host) ELSE u.host

\* .replace(/^www\./, "")  (StripWwwNever leaves the host as it is)
StripWwwNever(h) == h
StripWww(h) == IF Len(h) >= 2 /\ h[1] = "www" THEN Tail(h) ELSE h

\* normalizeDomain (run-cpa) and normalizeDomainFromUrl (trust-proxy/common)
normalizeDomain(u) == IF ~u.ok THEN <<>> ELSE toLowerCase(StripWww(hostname(u)))
normalizeDomainFromUrl(u) == IF ~u.ok THEN <<>> ELSE toLowerCase(StripWww(hostname(u)))

\* toHomeUrl: scheme://host/
toHomeUrl(u) ==
    IF ~u.ok THEN NullUrl ELSE U(u.scheme, u.special, hostname(u), "/")

\* the banned list of isBannedDomain and of isProbablyDirectoryDomain
banned == {
    <<"yelp", "com">>, <<"facebook", "com">>, <<"linkedin", "com">>,
    <<"yellowpages", "com">>, <<"angi", "com">>, <<"thumbtack", "com">>,
    <<"clutch", "co">>, <<"expertise", "com">>, <<"bbb", "org">>,
    <<"mapquest", "com">>, <<"chamberofcommerce", "com">>, <<"dnb", "com">>,
    <<"opencorporates", "com">> }

\* domain.endsWith(`.${b}`): b is a proper suffix of domain, label by label
endsWithDot(domain, b) ==
    /\ Len(domain) > Len(b)
    /\ SubSeq(domain, Len(domain) - Len(b) + 1, Len(domain)) = b

\* isBannedDomainExact forgets the subdomains
isBannedDomainExact(domain) == \E b \in banned : domain = b
isBannedDomain(domain) == \E b \in banned : domain = b \/ endsWithDot(domain, b)
isProbablyDirectoryDomain(domain) ==
    \E b \in banned : domain = b \/ endsWithDot(domain, b)

\* ---- Map<string, FirmCandidate>: set keeps the place of an existing key and
\* puts a new key last; MapSetFirst puts a new key first
MapHas(m, k) == \E i \in 1 .. Len(m) : m[i].key = k
MapIndex(m, k) == CHOOSE i \in 1 .. Len(m) : m[i].key = k
MapGet(m, k) == m[MapIndex(m, k)].value
MapSetFirst(m, k, v) ==
    IF MapHas(m, k)
    THEN [m EXCEPT ![MapIndex(m, k)] = [key |-> k, value |-> v]]
    ELSE <<[key |-> k, value |-> v]>> \o m
MapSet(m, k, v) ==
    IF MapHas(m, k)
    THEN [m EXCEPT ![MapIndex(m, k)] = [key |-> k, value |-> v]]
    ELSE Append(m, [key |-> k, value |-> v])
MapKeys(m) == {m[i].key : i \in 1 .. Len(m)}

\* ---- runDiscoveryPass: the body of `for (const h of hits)` for the hit
\* (u, title) of query q.
\* mergeHitAlwaysSet skips the lookup of an existing candidate.
mergeHitAlwaysSet(m, q, u, title) ==
    LET domain == normalizeDomain(u)
        homeUrl == toHomeUrl(u)
    IN  IF domain = <<>> \/ isBannedDomain(domain) THEN m
        ELSE IF ~homeUrl.ok THEN m
        ELSE MapSet(m, domain,
                 [domain |-> domain, homeUrl |-> homeUrl, bestTitle |-> title,
                  sourceQueries |-> <<q>>, discoveredUrls |-> <<u>>,
                  origin |-> "search"])

\* mergeHitByTitle also takes a candidate of the same title for the existing one
mergeHitByTitle(m, q, u, title) ==
    LET domain == normalizeDomain(u)
        homeUrl == toHomeUrl(u)
    IN  IF domain = <<>> \/ isBannedDomain(domain) THEN m
        ELSE IF ~homeUrl.ok THEN m
        ELSE IF MapHas(m, domain)
        THEN LET existing == MapGet(m, domain)
             IN  MapSet(m, domain,
                     [existing EXCEPT
                        !.sourceQueries = Append(@, q),
                        !.discoveredUrls = Append(@, u),
                        !.bestTitle = IF Len(@) < Len(title) THEN title ELSE @])
        ELSE IF \E i \in 1 .. Len(m) : m[i].value.bestTitle = title THEN m
        ELSE MapSet(m, domain,
                 [domain |-> domain, homeUrl |-> homeUrl, bestTitle |-> title,
                  sourceQueries |-> <<q>>, discoveredUrls |-> <<u>>,
                  origin |-> "search"])

\* mergeHitLatestTitle also replaces bestTitle by a title of the same length
mergeHitLatestTitle(m, q, u, title) ==
    LET domain == normalizeDomain(u)
        homeUrl == toHomeUrl(u)
    IN  IF domain = <<>> \/ isBannedDomain(domain) THEN m
        ELSE IF ~homeUrl.ok THEN m
        ELSE IF MapHas(m, domain)
        THEN LET existing == MapGet(m, domain)
             IN  MapSet(m, domain,
                     [existing EXCEPT
                        !.sourceQueries = Append(@, q),
                        !.discoveredUrls = Append(@, u),
                        !.bestTitle = IF Len(@) <= Len(title) THEN title ELSE @])
        ELSE MapSet(m, domain,
                 [domain |-> domain, homeUrl |-> homeUrl, bestTitle |-> title,
                  sourceQueries |-> <<q>>, discoveredUrls |-> <<u>>,
                  origin |-> "search"])

mergeHit(m, q, u, title) ==
    LET domain == normalizeDomain(u)
        homeUrl == toHomeUrl(u)
    IN  IF domain = <<>> \/ isBannedDomain(domain) THEN m
        ELSE IF ~homeUrl.ok THEN m
        ELSE IF MapHas(m, domain)
        THEN LET existing == MapGet(m, domain)
             IN  MapSet(m, domain,
                     [existing EXCEPT
                        !.sourceQueries = Append(@, q),
                        !.discoveredUrls = Append(@, u),
                        !.bestTitle = IF Len(@) < Len(title) THEN title ELSE @])
        ELSE MapSet(m, domain,
                 [domain |-> domain, homeUrl |-> homeUrl, bestTitle |-> title,
                  sourceQueries |-> <<q>>, discoveredUrls |-> <<u>>,
                  origin |-> "search"])

\* for (const h of hits): the hits of one query, in order
RECURSIVE InsertHits(_, _)
InsertHits(m, hs) ==
    IF hs = <<>> THEN m
    ELSE InsertHits(mergeHit(m, hs[1].q, hs[1].url, hs[1].title), Tail(hs))

\* ---- candidatesFromHit (trust-proxy miner): a hit on a directory domain gives
\* nothing; any other hit gives candidates of this shape, one per firm name.
minedUrls == {u \in HitUrls :
                LET domain == normalizeDomainFromUrl(u)
                IN  ~(domain # <<>> /\ isProbablyDirectoryDomain(domain))}
proxyCandidate(source, u, firm) ==
    LET domain == normalizeDomainFromUrl(u)
    IN  [source |-> source, firm_name |-> firm, domain |-> domain,
         home_url |-> IF domain # <<>> THEN toHomeUrl(u) ELSE NullUrl,
         source_url |-> u, metro |-> Metro]
minedCandidates ==
    {proxyCandidate(source, u, firm) : source \in Sources, u \in minedUrls,
                                       firm \in FirmNames}

\* ---- main: the body of `for (const tp of trustProxyCandidates)`
mergeProxy(m, tp) ==
    LET domain == IF tp.domain # <<>> THEN tp.domain ELSE normalizeDomain(tp.source_url)
        homeUrl == IF tp.home_url.ok THEN tp.home_url ELSE toHomeUrl(tp.source_url)
        tag == "trust-proxy:" \o tp.source
    IN  IF domain = <<>> \/ ~homeUrl.ok \/ isBannedDomain(domain) THEN m
        ELSE IF MapHas(m, domain)
        THEN LET existing == MapGet(m, domain)
             IN  MapSet(m, domain, [existing EXCEPT !.sourceQueries = Append(@, tag)])
        ELSE MapSet(m, domain,
                 [domain |-> domain, homeUrl |-> homeUrl, bestTitle |-> tp.firm_name,
                  sourceQueries |-> <<tag>>, discoveredUrls |-> <<tp.source_url>>,
                  origin |-> "trust-proxy"])

\* the query of each pass (one per pass in the model)
PassQuery(p) ==
    CASE p = "pass1" -> "houston construction cpa"
      [] p = "pass2" -> "houston job costing accountant"
      [] p = "pass3" -> "contador construccion houston"

\* ---- a discovery pass handles one hit of a query
SearchSighting ==
    /\ phase \in {"pass1", "pass2", "pass3"}
    /\ Len(log) < MaxSightings
    /\ \E h \in Hits :
          /\ candidatesByDomain' =
                mergeHit(candidatesByDomain, PassQuery(phase), h.url, h.title)
          /\ log' = Append(log, [kind |-> "search", url |-> h.url, title |-> h.title,
                                 q |-> PassQuery(phase)])
    /\ prevRegistry' = candidatesByDomain
    /\ UNCHANGED <<phase, fetchVars, evalVars, pipelineVars>>

\* ---- main goes on to the next pass (pass3 only if the spec lists queries for
\* it), then to the trust-proxy merge, then to the crawl
NextPhase ==
    /\ \/ phase = "pass1" /\ phase' = "pass2"
       \/ phase = "pass2" /\ phase' \in {"pass3", "trust-proxy"}
       \/ phase = "pass3" /\ phase' = "trust-proxy"
       \/ phase = "trust-proxy" /\ phase' = "crawl"
    /\ UNCHANGED <<candidatesByDomain, log, prevRegistry, fetchVars, evalVars, pipelineVars>>

\* ---- main merges one mined proxy candidate
ProxySighting ==
    /\ phase = "trust-proxy"
    /\ Len(log) < MaxSightings
    /\ \E tp \in minedCandidates :
          /\ candidatesByDomain' = mergeProxy(candidatesByDomain, tp)
          /\ log' = Append(log, [kind |-> "trust-proxy", url |-> tp.source_url,
                                 title |-> tp.firm_name, q |-> tp.source])
    /\ prevRegistry' = candidatesByDomain
    /\ UNCHANGED <<phase, fetchVars, evalVars, pipelineVars>>

InitRegistry ==
    /\ InitFetchVars
    /\ minIntervalMs = SearchIntervalMs
    /\ IdleRegistryVars
    /\ IdleEvalVars
    /\ IdlePipelineVars

NextRegistry ==
    \/ SearchSighting
    \/ NextPhase
    \/ ProxySighting

SpecRegistry == InitRegistry /\ [][NextRegistry]_vars

\* one discovery pass on its own: runDiscoveryPass applied to any hits, in any order
NextPass == SearchSighting

SpecPass == InitRegistry /\ [][NextPass]_vars

\* hits of several titles for one firm's site, and one hit of another site
TitleHits == {
    Hit(U("https", TRUE, <<"acme", "com">>, "/"), "Home"),
    Hit(U("https", TRUE, <<"acme", "com">>, "/team"), "Team"),
    Hit(U("https", TRUE, <<"www", "acme", "com">>, "/about"), "Acme CPA"),
    Hit(U("https", TRUE, <<"acme", "com">>, "/tax"), "Acme Tax"),
    Hit(U("https", TRUE, <<"bob", "biz">>, "/cpa"), "Bob") }

\* ---- a discovery pass handles one of these hits
TitleSighting ==
    /\ phase \in {"pass1", "pass2", "pass3"}
    /\ Len(log) < MaxSightings
    /\ \E h \in TitleHits :
          /\ candidatesByDomain' =
                mergeHit(candidatesByDomain, PassQuery(phase), h.url, h.title)
          /\ log' = Append(log, [kind |-> "search", url |-> h.url, title |-> h.title,
                                 q |-> PassQuery(phase)])
    /\ prevRegistry' = candidatesByDomain
    /\ UNCHANGED <<phase, fetchVars, evalVars, pipelineVars>>

NextTitles == TitleSighting

SpecTitles == InitRegistry /\ [][NextTitles]_vars

(***************************************************************************)
(* RateLimiter.wait called from several tasks on one instance.             *)
(***************************************************************************)
Done(c, t, read) == [by |-> c, at |-> t, read |-> read]

\* ---- caller c enters wait(): up to the first await the body runs in one
\* piece, so a call that need not sleep reads and records lastRunAt at once
WaitCall(c) ==
    /\ wpc[c] = "idle"
    /\ now + minIntervalMs <= MaxClock
    /\ IF remaining(now) > 0
       THEN /\ wpc' = [wpc EXCEPT ![c] = "sleeping"]
            /\ wakeAt' = [wakeAt EXCEPT ![c] = now + remaining(now)]
            /\ readLast' = [readLast EXCEPT ![c] = lastRunAt]
            /\ UNCHANGED <<lastRunAt, finished>>
       ELSE /\ lastRunAt' = now
            /\ finished' = Push2(finished, Done(c, now, lastRunAt))
            /\ readLast' = [readLast EXCEPT ![c] = lastRunAt]
            /\ UNCHANGED <<wpc, wakeAt>>
    /\ UNCHANGED <<now, minIntervalMs, doneTimes, pc, url, maxRetries, timeoutMs,
                   attempt, res, sleepUntil, abortAt, result, trace>>
    /\ UNCHANGED <<registryVars, evalVars, mineVars, searchVars, crawlVars, normVars,
                   runVars, extraVars>>

\* ---- the sleep(remaining) timer of caller c fires (timers fire in due order)
\* and the caller records this.lastRunAt = Date.now()
WaitResume(c) ==
    /\ wpc[c] = "sleeping"
    /\ \A o \in Callers : wpc[o] = "sleeping" => wakeAt[c] <= wakeAt[o]
    /\ now' = Max(now, wakeAt[c])
    /\ lastRunAt' = Max(now, wakeAt[c])
    /\ finished' = Push2(finished, Done(c, Max(now, wakeAt[c]), readLast[c]))
    /\ wpc' = [wpc EXCEPT ![c] = "idle"]
    /\ UNCHANGED <<wakeAt, readLast>>
    /\ UNCHANGED <<minIntervalMs, doneTimes, pc, url, maxRetries, timeoutMs,
                   attempt, res, sleepUntil, abortAt, result, trace>>
    /\ UNCHANGED <<registryVars, evalVars, mineVars, searchVars, crawlVars, normVars,
                   runVars, extraVars>>

InitConcurrent == InitFetchVars /\ IdleRegistryVars /\ IdleEvalVars /\ IdlePipelineVars

NextConcurrent ==
    \/ \E c \in Callers : WaitCall(c)
    \/ \E c \in Callers : WaitResume(c)
    \/ Tick /\ UNCHANGED <<registryVars, evalVars, pipelineVars>>

SpecConcurrent == InitConcurrent /\ [][NextConcurrent]_vars

(***************************************************************************)
(* normalizeDomain called on its own.                                      *)
(***************************************************************************)
\* hosts: up to MaxWww leading www labels in either case, then the site
WwwPrefixes == UNION {[1 .. k -> {"www", "WWW"}] : k \in 0 .. MaxWww}
SiteHosts == {<<"acme", "com">>, <<"Acme", "com">>}
\* the URLs given: https (a special scheme: the parser lowercases the host) and
\* git (not special: the host is kept as written), and a string that is no URL
NormUrls ==
    {U("https", TRUE, w \o h, pth) :
        w \in WwwPrefixes, h \in SiteHosts, pth \in {"/a", "/b"}}
    \cup {U("git", FALSE, w \o h, "/a") : w \in WwwPrefixes, h \in SiteHosts}
    \cup {Unparseable}

\* new URL(d) for a domain d as normalizeDomain returns it: the string has no
\* scheme, so the constructor throws (host keeps the labels of the string)
BareDomain(d) ==
    [ok |-> FALSE, scheme |-> "", special |-> FALSE, host |-> d, path |-> ""]

\* ---- normalizeDomain(u) for a URL u
Normalize ==
    /\ \E u \in NormUrls :
          /\ normUrl' = u
          /\ normDomain' = normalizeDomain(u)
    /\ normEarlier' = [url |-> normUrl, domain |-> normDomain]
    /\ UNCHANGED <<fetchVars, registryVars, evalVars, mineVars, searchVars, crawlVars,
                   limiterVars, runVars, extraVars>>

\* ---- normalizeDomain applied to the domain the latest call returned
NormalizeResult ==
    /\ normUrl.ok
    /\ normUrl' = BareDomain(normDomain)
    /\ normDomain' = normalizeDomain(BareDomain(normDomain))
    /\ normEarlier' = [url |-> normUrl, domain |-> normDomain]
    /\ UNCHANGED <<fetchVars, registryVars, evalVars, mineVars, searchVars, crawlVars,
                   limiterVars, runVars, extraVars>>

InitNormalize == InitFetchVars /\ IdleRegistryVars /\ IdleEvalVars /\ IdlePipelineVars

NextNormalize ==
    \/ Normalize
    \/ NormalizeResult

SpecNormalize == InitNormalize /\ [][NextNormalize]_vars

(***************************************************************************)
(* evaluateCpaSite is called on one text after another.                    *)
(***************************************************************************)
\* the position of a phrase in the vocabulary
VocabularyIndex(w) == CHOOSE i \in 1 .. Len(Vocabulary) : Vocabulary[i] = w

\* ---- evaluateCpaSite is called on a text: the previous one with one more
\* phrase of the vocabulary after it
Evaluate ==
    /\ Len(combinedText) < MaxPhrases
    /\ \E i \in 1 .. Len(Vocabulary) :
          /\ IF combinedText = <<>> THEN TRUE
             ELSE VocabularyIndex(combinedText[Len(combinedText)]) < i
          /\ combinedText' = Append(combinedText, Vocabulary[i])
          /\ evaled' = evaluateCpaSite(combinedText')
    /\ UNCHANGED <<earlier, calls, fetchVars, registryVars, pipelineVars>>

InitEval ==
    /\ InitFetchVars
    /\ minIntervalMs = CrawlIntervalMs
    /\ IdleRegistryVars
    /\ IdleEvalVars
    /\ IdlePipelineVars

NextEval == Evaluate

SpecEval == InitEval /\ [][NextEval]_vars

\* the text with one more phrase, put at its place in the order of the vocabulary
WithPhrase(t, i) ==
    LET before == SelectSeq(t, LAMBDA w : VocabularyIndex(w) < i)
        after == SelectSeq(t, LAMBDA w : VocabularyIndex(w) > i)
    IN  before \o <<Vocabulary[i]>> \o after

\* ---- evaluateCpaSite is called on the text of the call before with one more
\* phrase in it, anywhere
EvaluateWith ==
    /\ Len(combinedText) < MaxComparePhrases
    /\ \E i \in 1 .. Len(Vocabulary) :
          /\ \A k \in 1 .. Len(combinedText) : combinedText[k] # Vocabulary[i]
          /\ combinedText' = WithPhrase(combinedText, i)
          /\ evaled' = evaluateCpaSite(combinedText')
    /\ earlier' = [text |-> combinedText, result |-> evaled]
    /\ UNCHANGED <<calls, fetchVars, registryVars, pipelineVars>>

NextCompare == EvaluateWith

SpecCompare == InitEval /\ [][NextCompare]_vars

\* texts an unrelated sequence of calls picks from
CallTexts ==
    { <<>>,
      <<"CPA", "construction">>,
      <<"CPA", "construction", "job costing">>,
      <<"CPA", "construction", "all industries">>,
      <<"personal tax", "1040">>,
      <<"nationwide">> }

\* ---- evaluateCpaSite(t): everything it computes is local to the call.
\* CallKeepsReasons has the reasons array outlive the call.
CallKeepsReasons(t) ==
    /\ Len(calls) < MaxCalls
    /\ combinedText' = t
    /\ evaled' = [evaluateCpaSite(t) EXCEPT !.reasons = evaled.reasons \o @]
    /\ earlier' = [text |-> combinedText, result |-> evaled]
    /\ calls' = Append(calls, [text |-> t, result |-> evaled'])
    /\ UNCHANGED <<fetchVars, registryVars, pipelineVars>>
Call(t) ==
    /\ Len(calls) < MaxCalls
    /\ combinedText' = t
    /\ evaled' = evaluateCpaSite(t)
    /\ earlier' = [text |-> combinedText, result |-> evaled]
    /\ calls' = Append(calls, [text |-> t, result |-> evaled'])
    /\ UNCHANGED <<fetchVars, registryVars, pipelineVars>>

CallAny == \E t \in CallTexts : Call(t)

NextCalls == CallAny

SpecCalls == InitEval /\ [][NextCalls]_vars

(***************************************************************************)
(* trust-proxy/mineTrustProxy.ts: mineTrustProxyCandidates and mineSource. *)
(* A search and its hits are taken as they come: how many hits a query has *)
(* and how many candidates candidatesFromHit makes of a hit are free.      *)
(***************************************************************************)
\* how many queries each lane has
LaneQueries == { <<2, 1, 1>>, <<1, 0, 1>>, <<0, 0, 0>> }

MineSpecs ==
    [enabled : BOOLEAN,
     max_candidates_total : 0 .. MaxTotalCap,
     max_candidates_per_source : [LaneIds -> 0 .. MaxLaneCap],
     queries : LaneQueries]

\* what a hit is: on a directory domain, a PDF, or a page
HitKinds == {"directory", "pdf", "page"}
\* how many candidates candidatesFromHit makes of a hit (at most 5 in the code)
CandidatesPerHit == {0, 1, 2}

maxOut(l) == mineSpec.max_candidates_per_source[l]

RECURSIVE SumTo(_, _)
SumTo(f, n) == IF n = 0 THEN 0 ELSE f[n] + SumTo(f, n - 1)
\* candidates emitted so far, all lanes together
Emitted == SumTo(out, Len(Lanes))

\* for (const c of cands) { out.push(c); if (out.length >= maxOut) break; }
RECURSIVE PushCands(_, _, _)
PushCands(len, n, cap) ==
    IF n = 0 THEN len
    ELSE IF len + 1 >= cap THEN len + 1
    ELSE PushCands(len + 1, n - 1, cap)

Repeat(x, n) == [i \in 1 .. n |-> x]
\* [...supplier, ...association, ...expert].slice(0, max_candidates_total)
Capped(o, total) ==
    LET merged == Repeat(Lanes[1], o[1]) \o Repeat(Lanes[2], o[2]) \o Repeat(Lanes[3], o[3])
    IN  SubSeq(merged, 1, Min(total, Len(merged)))

\* a request goes out: was a cap reached already?
LateNow ==
    [lane |-> late.lane \/ out[lane] >= maxOut(lane),
     total |-> late.total \/ Emitted >= mineSpec.max_candidates_total]

\* ---- main reaches the trust-proxy phase; mineTrustProxyCandidates returns []
\* at once when the spec is not enabled. StartMiningAnyway does not look.
StartMiningAnyway ==
    /\ mpc = "idle"
    /\ mpc' = "lane"
    /\ UNCHANGED <<mineSpec, lane, queryIdx, hitsLeft, laneDone, out, mined,
                   mineCalls, late>>
    /\ UNCHANGED <<fetchVars, registryVars, evalVars, searchVars, crawlVars, auxVars>>
StartMining ==
    /\ mpc = "idle"
    /\ mpc' = IF mineSpec.enabled THEN "lane" ELSE "done"
    /\ UNCHANGED <<mineSpec, lane, queryIdx, hitsLeft, laneDone, out, mined,
                   mineCalls, late>>
    /\ UNCHANGED <<fetchVars, registryVars, evalVars, searchVars, crawlVars, auxVars>>

\* ---- mineSource: the next query of the lane is searched (fetchHtml under the
\* search limiter) and its hits come back
SearchQuery ==
    /\ mpc = "lane" /\ ~laneDone /\ hitsLeft = 0
    /\ queryIdx < mineSpec.queries[lane]
    /\ queryIdx' = queryIdx + 1
    /\ \E n \in 0 .. MaxMineHits : hitsLeft' = n
    /\ mineCalls' = mineCalls \cup {"search", "limiter"}
    /\ late' = LateNow
    \* for (const h of hits) is not entered with no hit; the break test after it runs
    /\ laneDone' = (hitsLeft' = 0 /\ out[lane] >= maxOut(lane))
    /\ UNCHANGED <<mpc, mineSpec, lane, out, mined>>
    /\ UNCHANGED <<fetchVars, registryVars, evalVars, searchVars, crawlVars, auxVars>>

\* ---- mineSource: candidatesFromHit on the next hit, its candidates pushed
\* while the cap is not reached, and the break tests after it
MineHit ==
    /\ mpc = "lane" /\ ~laneDone /\ hitsLeft > 0
    /\ \E kind \in HitKinds, n \in CandidatesPerHit :
          /\ kind = "directory" => n = 0
          /\ mineCalls' =
                CASE kind = "directory" -> mineCalls
                  [] kind = "pdf" -> mineCalls \cup {"pdf"}
                  [] kind = "page" -> mineCalls \cup {"page", "limiter"}
          /\ late' = IF kind = "directory" THEN late ELSE LateNow
          /\ out' = [out EXCEPT ![lane] = PushCands(@, n, maxOut(lane))]
    /\ laneDone' = (out'[lane] >= maxOut(lane))
    /\ hitsLeft' = IF laneDone' THEN 0 ELSE hitsLeft - 1
    /\ UNCHANGED <<mpc, mineSpec, lane, queryIdx, mined>>
    /\ UNCHANGED <<fetchVars, registryVars, evalVars, searchVars, crawlVars, auxVars>>

\* ---- mineSource returns; the next lane is mined, or the lanes are merged and
\* cut to the total cap
ReturnLane ==
    /\ mpc = "lane"
    /\ laneDone \/ (hitsLeft = 0 /\ queryIdx >= mineSpec.queries[lane])
    /\ IF lane < Len(Lanes)
       THEN /\ lane' = lane + 1
            /\ UNCHANGED <<mpc, mined>>
       ELSE /\ mpc' = "done"
            /\ mined' = Capped(out, mineSpec.max_candidates_total)
            /\ UNCHANGED lane
    /\ queryIdx' = 0
    /\ hitsLeft' = 0
    /\ laneDone' = FALSE
    /\ UNCHANGED <<mineSpec, out, mineCalls, late>>
    /\ UNCHANGED <<fetchVars, registryVars, evalVars, searchVars, crawlVars, auxVars>>

InitMine ==
    /\ InitFetchVars
    /\ minIntervalMs = SearchIntervalMs
    /\ IdleRegistryVars
    /\ IdleEvalVars
    /\ mpc = "idle"
    /\ mineSpec \in MineSpecs
    /\ lane = 1
    /\ queryIdx = 0
    /\ hitsLeft = 0
    /\ laneDone = FALSE
    /\ out = [l \in LaneIds |-> 0]
    /\ mined = <<>>
    /\ mineCalls = NoCalls
    /\ late = NotLate
    /\ IdleSearchVars
    /\ IdleCrawlVars
    /\ IdleAuxVars

NextMine ==
    \/ StartMining
    \/ SearchQuery
    \/ MineHit
    \/ ReturnLane

SpecMine == InitMine /\ [][NextMine]_vars

(***************************************************************************)
(* core/searchDuckDuckGo.ts inside runDiscoveryPass.  What a fetchHtml     *)
(* call can return is taken from its return statements; its timing and     *)
(* retries are those of the fetchHtml part above.                          *)
(***************************************************************************)
SearchTimeoutMs == 20000
SearchMaxRetries == 2

\* the queries of the pass
SearchQueries == << "houston construction cpa", "houston job costing accountant" >>

\* encodeURIComponent, on the queries of the model
encodeURIComponent(q) ==
    CASE q = "houston construction cpa" -> "houston%20construction%20cpa"
      [] q = "houston job costing accountant" -> "houston%20job%20costing%20accountant"
SearchUrl(q) == "https://duckduckgo.com/html/?q=" \o encodeURIComponent(q)

\* every value a fetchHtml call on url u can return
FetchResults(u) ==
    { [ok |-> TRUE, status |-> st, url |-> f, html |-> b, error |-> Undefined] :
        st \in {x \in Statuses : ResOk(x)}, f \in FinalUrls, b \in Bodies }
    \cup
    { [ok |-> FALSE, status |-> st, url |-> f, html |-> Undefined, error |-> "HTTP"] :
        st \in {x \in Statuses : ~ResOk(x)}, f \in FinalUrls }
    \cup
    { [ok |-> FALSE, status |-> 0, url |-> u, html |-> Undefined, error |-> m] :
        m \in ErrorMessages \cup {"timeout", "unknown error"} }

\* the href of a block's a.result__a, trimmed: none, a direct link, or a
\* redirect link whose uddg parameter holds the target; a target may carry a
\* tracking query
NoHref == [kind |-> "none", url |-> NullUrl, search |-> ""]
Direct(u, search) == [kind |-> "direct", url |-> u, search |-> search]
Uddg(u, search) == [kind |-> "uddg", url |-> u, search |-> search]
Block(title, href) == [title |-> title, href |-> href]

\* the blocks a search document is made of; titles are trimmed already
Blocks == {
    Block("Home", Direct(U("https", TRUE, <<"acme", "com">>, "/"), "")),
    Block("Acme CPA", Uddg(U("https", TRUE, <<"www", "acme", "com">>, "/about"), "?utm=1")),
    Block("Home", Direct(U("https", TRUE, <<"bob", "biz">>, "/cpa"), "?ref=ddg")),
    Block("", Direct(U("https", TRUE, <<"bob", "biz">>, "/cpa"), "")),
    Block("Acme CPA", NoHref) }

RECURSIVE SeqsUpTo(_, _)
SeqsUpTo(S, n) ==
    IF n = 0 THEN {<<>>}
    ELSE LET shorter == SeqsUpTo(S, n - 1)
         IN  shorter \cup {Append(p, b) : p \in shorter, b \in S}
Pages == SeqsUpTo(Blocks, MaxBlocks)

\* !href
NoTarget(href) == href.kind = "none"
\* normalizeUrl: the URL with search and hash emptied
normalizeUrl(href) == href.url

\* $(".result").each(...): hits.length > maxResults lets one block too many in
ParseBlockLoose(acc, b, q, cap) ==
    IF Len(acc) > cap THEN acc
    ELSE IF NoTarget(b.href) \/ b.title = "" THEN acc
    ELSE Append(acc, [title |-> b.title, url |-> normalizeUrl(b.href), sourceQuery |-> q])
ParseBlock(acc, b, q, cap) ==
    IF Len(acc) >= cap THEN acc
    ELSE IF NoTarget(b.href) \/ b.title = "" THEN acc
    ELSE Append(acc, [title |-> b.title, url |-> normalizeUrl(b.href), sourceQuery |-> q])

RECURSIVE ParseBlocks(_, _, _, _)
ParseBlocks(acc, blocks, q, cap) ==
    IF blocks = <<>> THEN acc
    ELSE ParseBlocks(ParseBlock(acc, blocks[1], q, cap), Tail(blocks), q, cap)

\* if (!res.ok || !res.html) return []
FailedFetch(r) == ~r.ok \/ r.html = Undefined \/ r.html = ""

duckDuckGoSearch(r, blocks, q, cap) ==
    IF FailedFetch(r) THEN <<>> ELSE ParseBlocks(<<>>, blocks, q, cap)

\* runDiscoveryPass reads url and title of each hit and files it under its query
PassHits(q, hs) ==
    [i \in 1 .. Len(hs) |->
        [kind |-> "search", url |-> hs[i].url, title |-> hs[i].title, q |-> q]]

CurrentQuery == SearchQueries[queriesDone + 1]

\* ---- runDiscoveryPass takes the next query; duckDuckGoSearch calls fetchHtml
\* on the search url, which returns
SearchFetch ==
    /\ spc = "pass"
    /\ queriesDone < Len(SearchQueries)
    /\ url' = SearchUrl(CurrentQuery)
    /\ timeoutMs' = SearchTimeoutMs
    /\ maxRetries' = SearchMaxRetries
    /\ result' \in FetchResults(url')
    /\ pc' = "returned"
    /\ page' \in IF result'.ok /\ result'.html = "<html>" THEN Pages ELSE {<<>>}
    /\ spc' = "fetched"
    /\ UNCHANGED <<now, minIntervalMs, lastRunAt, doneTimes, attempt, res, sleepUntil,
                   abortAt, trace>>
    /\ UNCHANGED <<maxResults, queriesDone, searchHits, outcomes>>
    /\ UNCHANGED <<registryVars, evalVars, mineVars, crawlVars, auxVars>>

\* ---- duckDuckGoSearch returns its hits and the pass files them, one after
\* the other. SearchReturnsRethrow lets a failed fetch end the pass.
SearchReturnsRethrow ==
    /\ spc = "fetched"
    /\ searchHits' = duckDuckGoSearch(result, page, CurrentQuery, maxResults)
    /\ prevRegistry' = candidatesByDomain
    /\ candidatesByDomain' =
          InsertHits(candidatesByDomain, PassHits(CurrentQuery, searchHits'))
    /\ log' = log \o PassHits(CurrentQuery, searchHits')
    /\ outcomes' = Append(outcomes, FailedFetch(result))
    /\ queriesDone' = queriesDone + 1
    /\ spc' = IF FailedFetch(result) THEN "raised" ELSE "pass"
    /\ UNCHANGED <<phase, maxResults, page>>
    /\ UNCHANGED <<fetchVars, evalVars, mineVars, crawlVars, auxVars>>
SearchReturns ==
    /\ spc = "fetched"
    /\ searchHits' = duckDuckGoSearch(result, page, CurrentQuery, maxResults)
    /\ prevRegistry' = candidatesByDomain
    /\ candidatesByDomain' =
          InsertHits(candidatesByDomain, PassHits(CurrentQuery, searchHits'))
    /\ log' = log \o PassHits(CurrentQuery, searchHits')
    /\ outcomes' = Append(outcomes, FailedFetch(result))
    /\ queriesDone' = queriesDone + 1
    /\ spc' = "pass"
    /\ UNCHANGED <<phase, maxResults, page>>
    /\ UNCHANGED <<fetchVars, evalVars, mineVars, crawlVars, auxVars>>

InitSearch ==
    /\ InitFetchVars
    /\ minIntervalMs = SearchIntervalMs
    /\ IdleRegistryVars
    /\ IdleEvalVars
    /\ IdleMineVars
    /\ spc = "pass"
    /\ maxResults \in 0 .. MaxResults
    /\ queriesDone = 0
    /\ page = <<>>
    /\ searchHits = <<>>
    /\ outcomes = <<>>
    /\ IdleCrawlVars
    /\ IdleAuxVars

NextSearch ==
    \/ SearchFetch
    \/ SearchReturns

SpecSearch == InitSearch /\ [][NextSearch]_vars

(***************************************************************************)
(* run-cpa, main: crawl + evaluate, sort, cut.  The name of a kept firm    *)
(* (pickCandidateName) is left out of the kept records.                    *)
(***************************************************************************)
KeptFactor == 2

\* hits that put one candidate each in the registry, in this order
CrawlHits == <<
    [kind |-> "search", url |-> U("https", TRUE, <<"acme", "com">>, "/about"),
     title |-> "Acme CPA", q |-> SearchQueries[1]],
    [kind |-> "search", url |-> U("https", TRUE, <<"bob", "biz">>, "/cpa"),
     title |-> "Home", q |-> SearchQueries[1]],
    [kind |-> "search", url |-> U("https", TRUE, <<"carl", "net">>, "/"),
     title |-> "Carl", q |-> SearchQueries[2]],
    [kind |-> "search", url |-> U("https", TRUE, <<"dana", "org">>, "/"),
     title |-> "Dana", q |-> SearchQueries[2]] >>

\* URL.prototype.toString, on the home urls of the model
UrlString(u) ==
    CASE u.host = <<"acme", "com">> -> "https://acme.com/"
      [] u.host = <<"bob", "biz">> -> "https://bob.biz/"
      [] u.host = <<"carl", "net">> -> "https://carl.net/"
      [] u.host = <<"dana", "org">> -> "https://dana.org/"
      [] u.host = <<"www", "acme", "com">> -> "https://www.acme.com/"

\* extractFromHtml(page.html).text, for a page that has a body
PageTexts ==
    { <<"CPA", "construction">>,
      <<"CPA", "contractors", "wip">>,
      <<"CPA", "construction", "nationwide">> }

\* Array.from(new Set(xs))
RECURSIVE Dedupe(_)
Dedupe(xs) ==
    IF xs = <<>> THEN <<>>
    ELSE LET front == Dedupe(SubSeq(xs, 1, Len(xs) - 1))
             last == xs[Len(xs)]
         IN  IF \E i \in 1 .. Len(front) : front[i] = last THEN front
             ELSE Append(front, last)

\* (a, b) => b.score - a.score puts a before b, or leaves them as they are,
\* unless b scores more; ComesFirstAscending sorts the other way
ComesFirstAscending(a, b) == a.score <= b.score
ComesFirstDescending(a, b) == a.score >= b.score

\* kept.sort(...): a stable sort
RECURSIVE InsertSorted(_, _)
InsertSorted(sorted, x) ==
    IF sorted = <<>> THEN <<x>>
    ELSE IF ComesFirstDescending(sorted[1], x)
    THEN <<sorted[1]>> \o InsertSorted(Tail(sorted), x)
    ELSE <<x>> \o sorted
RECURSIVE SortKept(_)
SortKept(xs) ==
    IF xs = <<>> THEN <<>>
    ELSE InsertSorted(SortKept(SubSeq(xs, 1, Len(xs) - 1)), xs[Len(xs)])

\* kept.slice(0, n)
Slice(xs, n) == SubSeq(xs, 1, Min(n, Len(xs)))

\* if (kept.length >= spec.target_count * 2) break; CrawlFullLate stops one later
CrawlFullLate == Len(kept) > targetCount * KeptFactor
CrawlFull == Len(kept) >= targetCount * KeptFactor

\* ---- one turn of the crawl loop: the next candidate's home page is fetched,
\* and kept if the fetch gave a body and the evaluator keeps its text
CrawlNext ==
    /\ cpc = "crawl"
    /\ crawlIdx < Len(candidatesByDomain)
    /\ ~CrawlFull
    /\ LET c == candidatesByDomain[crawlIdx + 1].value
       IN  /\ url' = UrlString(c.homeUrl)
           /\ timeoutMs' = DefaultTimeoutMs
           /\ maxRetries' = DefaultMaxRetries
           /\ result' \in FetchResults(url')
           /\ pc' = "returned"
           /\ crawlLog' = Append(crawlLog, Len(kept))
           /\ crawled' = Append(crawled, [domain |-> c.domain, url |-> url'])
           /\ crawlIdx' = crawlIdx + 1
           /\ IF FailedFetch(result')
              THEN UNCHANGED <<kept, combinedText, evaled, earlier>>
              ELSE \E text \in PageTexts :
                      /\ combinedText' = text
                      /\ evaled' = evaluateCpaSite(text)
                      /\ earlier' = [text |-> combinedText, result |-> evaled]
                      /\ kept' =
                            IF ~evaled'.keep THEN kept
                            ELSE Append(kept,
                                    [domain |-> c.domain,
                                     url |-> result'.url,
                                     origin |-> c.origin,
                                     score |-> evaled'.score,
                                     signals |-> evaled'.signals,
                                     reasons |-> evaled'.reasons,
                                     source_queries |-> Dedupe(c.sourceQueries)])
    /\ UNCHANGED <<now, minIntervalMs, lastRunAt, doneTimes, attempt, res, sleepUntil,
                   abortAt, trace>>
    /\ UNCHANGED <<cpc, targetCount, emitted, calls>>
    /\ UNCHANGED <<registryVars, mineVars, searchVars, auxVars>>

\* ---- the loop is left, by break or at the end of the registry: kept is
\* sorted and its first target_count entries are written
CrawlEnd ==
    /\ cpc = "crawl"
    /\ crawlIdx >= Len(candidatesByDomain) \/ CrawlFull
    /\ kept' = SortKept(kept)
    /\ emitted' = Slice(kept', targetCount)
    /\ cpc' = "done"
    /\ UNCHANGED <<targetCount, crawlIdx, crawlLog, crawled>>
    /\ UNCHANGED <<fetchVars, registryVars, evalVars, mineVars, searchVars, auxVars>>

InitCrawl ==
    /\ InitFetchVars
    /\ minIntervalMs = CrawlIntervalMs
    /\ phase = "crawl"
    /\ \E n \in 0 .. MaxCandidates :
          /\ n <= Len(CrawlHits)
          /\ log = SubSeq(CrawlHits, 1, n)
          /\ candidatesByDomain = InsertHits(<<>>, log)
    /\ prevRegistry = <<>>
    /\ IdleEvalVars
    /\ IdleMineVars
    /\ IdleSearchVars
    /\ cpc = "crawl"
    /\ targetCount \in 0 .. MaxTarget
    /\ crawlIdx = 0
    /\ kept = <<>>
    /\ crawlLog = <<>>
    /\ crawled = <<>>
    /\ emitted = <<>>
    /\ IdleAuxVars

NextCrawl ==
    \/ CrawlNext
    \/ CrawlEnd

SpecCrawl == InitCrawl /\ [][NextCrawl]_vars

\* the sighting s is of a parseable url whose domain is not banned
SightingAccepted(s) ==
    normalizeDomain(s.url) # <<>> /\ ~isBannedDomain(normalizeDomain(s.url))

\* ---- main from its last pass to the write, after two passes that sighted
\* nothing: the registry is filled by the sightings of pass 3 and of the
\* trust-proxy merge, then crawled
InitDiscover ==
    /\ InitFetchVars
    /\ minIntervalMs = CrawlIntervalMs
    /\ phase = "pass3"
    /\ candidatesByDomain = <<>>
    /\ log = <<>>
    /\ prevRegistry = <<>>
    /\ IdleEvalVars
    /\ IdleMineVars
    /\ IdleSearchVars
    /\ cpc = "crawl"
    /\ targetCount = MaxTarget
    /\ crawlIdx = 0
    /\ kept = <<>>
    /\ crawlLog = <<>>
    /\ crawled = <<>>
    /\ emitted = <<>>
    /\ IdleAuxVars

\* (the sightings drawn are those of parseable urls off the denylist: the
\* others leave the registry as it is)
NextDiscover ==
    \/ SearchSighting /\ SightingAccepted(log'[Len(log')])
    \/ NextPhase
    \/ ProxySighting /\ SightingAccepted(log'[Len(log')])
    \/ phase = "crawl" /\ CrawlNext
    \/ phase = "crawl" /\ CrawlEnd

SpecDiscover == InitDiscover /\ [][NextDiscover]_vars

(***************************************************************************)
(* main of run-cpa (three passes) as a whole: the calls it awaits, in      *)
(* order.  The registry, the evaluator and the miner's caps are reduced to *)
(* what they decide here: how many domains there are, whether a page is    *)
(* kept, whether a lane is left early.                                     *)
(***************************************************************************)
MineRetries == 1
\* a query list of the spec: absent, or that many queries
QueryLists == {Missing} \cup (0 .. MaxPassQueries)
TrustSpecs == {[enabled |-> FALSE, queries |-> <<0, 0, 0>>],
               [enabled |-> TRUE, queries |-> <<1, 0, 1>>]}
\* the optional third list: absent, or one query
Pass3Lists == {Missing, 1}
RunSpecs == [pass1 : QueryLists, pass2 : QueryLists, pass3 : Pass3Lists,
             trust : TrustSpecs, target : 0 .. MaxTarget]
\* domains one search can add to the registry
NewDomains == {0, 1, 2}

callVars == <<fpc, call, tries, outstanding>>
otherVars == <<fetchVars, registryVars, evalVars, mineVars, searchVars, crawlVars,
               normVars, limiterVars, extraVars>>

Op(kind, lim) == [op |-> kind, limiter |-> lim]

\* `await`: main goes on only when the call it awaits has settled;
\* AwaitedNever lets it go on at once
AwaitedNever == TRUE
Awaited == fpc = "none"

\* fetchHtml(url, limiter, { maxRetries }) is entered: await limiter.wait()
BeginFetch(lim, retries) ==
    /\ fpc' = "wait"
    /\ call' = [limiter |-> lim, retries |-> retries]
    /\ tries' = 1
    /\ outstanding' = Append(outstanding, Op("wait", lim))
    /\ netUsed' = TRUE

\* fetchBytes(url, 20000) is entered: await fetch(url), no limiter
BeginBytes ==
    /\ fpc' = "request"
    /\ call' = [limiter |-> "none", retries |-> 0]
    /\ tries' = 1
    /\ outstanding' = Append(outstanding, Op("request", "none"))
    /\ netUsed' = TRUE

\* the request of the call under way is over
Settle == outstanding' = SubSeq(outstanding, 1, Len(outstanding) - 1)

\* the call returns to main
Returned ==
    /\ fpc' = "none"
    /\ call' = NoCall
    /\ tries' = 0
    /\ Settle

\* ---- main is entered: the spec is read, the limiters and the Map are made
RunStart ==
    /\ rpc = "start"
    /\ rpc' = "pass1"
    /\ UNCHANGED <<runSpec, qIdx, mlane, mh, callVars, netUsed, nDomains, minedAny,
                   ridx, nKept, skipped, failedKinds, nWritten>>
    /\ UNCHANGED otherVars

Passes == {"pass1", "pass2", "pass3"}
AfterPasses == IF runSpec.trust.enabled THEN "mine" ELSE "crawl"
PassNext(p) ==
    CASE p = "pass1" -> "pass2"
      [] p = "pass2" -> IF runSpec.pass3 \notin {Missing, 0} THEN "pass3" ELSE AfterPasses
      [] p = "pass3" -> AfterPasses

\* ---- runDiscoveryPass at the head of `for (const q of queries)`: an absent
\* list raises a TypeError, which main().catch turns into exit(1); else the
\* next query is searched, or the pass is over
PassStep ==
    /\ rpc \in Passes
    /\ Awaited
    /\ IF runSpec[rpc] = Missing
       THEN /\ rpc' = "crashed"
            /\ UNCHANGED <<qIdx, callVars, netUsed>>
       ELSE IF qIdx < runSpec[rpc]
       THEN /\ BeginFetch("search", SearchMaxRetries)
            /\ UNCHANGED <<rpc, qIdx>>
       ELSE /\ rpc' = PassNext(rpc)
            /\ qIdx' = 0
            /\ UNCHANGED <<callVars, netUsed>>
    /\ UNCHANGED <<runSpec, mlane, mh, nDomains, minedAny, ridx, nKept, skipped,
                   failedKinds, nWritten>>
    /\ UNCHANGED otherVars

\* ---- limiter.wait() of the call under way completes, and fetch is issued
FetchWaitDone ==
    /\ fpc = "wait"
    /\ fpc' = "request"
    /\ outstanding' = [outstanding EXCEPT ![Len(outstanding)] = Op("request", call.limiter)]
    /\ UNCHANGED <<rpc, runSpec, qIdx, mlane, mh, call, tries, netUsed, nDomains,
                   minedAny, ridx, nKept, skipped, failedKinds, nWritten>>
    /\ UNCHANGED otherVars

\* ---- the attempt fails in a retryable way with retries left: sleep(500 * attempt)
FetchRetry ==
    /\ fpc = "request"
    /\ tries <= call.retries
    /\ fpc' = "backoff"
    /\ Settle
    /\ UNCHANGED <<rpc, runSpec, qIdx, mlane, mh, call, tries, netUsed, nDomains,
                   minedAny, ridx, nKept, skipped, failedKinds, nWritten>>
    /\ UNCHANGED otherVars

\* ---- the backoff is over: the next attempt waits on the limiter
FetchBackoffDone ==
    /\ fpc = "backoff"
    /\ fpc' = "wait"
    /\ tries' = tries + 1
    /\ outstanding' = Append(outstanding, Op("wait", call.limiter))
    /\ UNCHANGED <<rpc, runSpec, qIdx, mlane, mh, call, netUsed, nDomains, minedAny,
                   ridx, nKept, skipped, failedKinds, nWritten>>
    /\ UNCHANGED otherVars

\* ---- duckDuckGoSearch returns to runDiscoveryPass: its hits (none after a
\* failed fetch) are merged into the registry
SearchReturned ==
    /\ rpc \in Passes
    /\ fpc = "request"
    /\ Returned
    /\ qIdx' = qIdx + 1
    /\ \E ok \in BOOLEAN :
          IF ok
          THEN /\ \E k \in NewDomains :
                     nDomains + k <= MaxCandidates /\ nDomains' = nDomains + k
               /\ UNCHANGED failedKinds
          ELSE /\ failedKinds' = failedKinds \cup {"search"}
               /\ UNCHANGED nDomains
    /\ UNCHANGED <<rpc, runSpec, mlane, mh, netUsed, minedAny, ridx, nKept, skipped,
                   nWritten>>
    /\ UNCHANGED otherVars

\* ---- mineTrustProxyCandidates between hits: the next query of the lane is
\* searched, or the next lane begun, or the list returned and merged
MineStep ==
    /\ rpc = "mine"
    /\ Awaited
    /\ mh = 0
    /\ IF mlane > Len(Lanes)
       THEN /\ rpc' = "crawl"
            /\ qIdx' = 0
            /\ \E k \in {0, 1} :
                  /\ k = 1 => (minedAny /\ nDomains < MaxCandidates)
                  /\ nDomains' = nDomains + k
            /\ UNCHANGED <<mlane, callVars, netUsed>>
       ELSE IF qIdx < runSpec.trust.queries[mlane]
       THEN /\ BeginFetch("mine-search", SearchMaxRetries)
            /\ UNCHANGED <<rpc, qIdx, mlane, nDomains>>
       ELSE /\ mlane' = mlane + 1
            /\ qIdx' = 0
            /\ UNCHANGED <<rpc, callVars, netUsed, nDomains>>
    /\ UNCHANGED <<runSpec, mh, minedAny, ridx, nKept, skipped, failedKinds, nWritten>>
    /\ UNCHANGED otherVars

\* ---- duckDuckGoSearch returns to mineSource
MineSearchReturned ==
    /\ rpc = "mine"
    /\ fpc = "request"
    /\ call.limiter = "mine-search"
    /\ Returned
    /\ qIdx' = qIdx + 1
    /\ \E ok \in BOOLEAN :
          IF ok THEN mh' \in 0 .. MaxMineHits ELSE mh' = 0
    /\ UNCHANGED <<rpc, runSpec, mlane, netUsed, nDomains, minedAny, ridx, nKept,
                   skipped, failedKinds, nWritten>>
    /\ UNCHANGED otherVars

\* ---- candidatesFromHit is entered for the next hit: nothing is fetched for a
\* directory domain, a PDF is fetched with fetchBytes, a page with fetchHtml
MineHitStep ==
    /\ rpc = "mine"
    /\ Awaited
    /\ mh > 0
    /\ \E kind \in HitKinds :
          CASE kind = "directory" ->
                 /\ mh' = mh - 1
                 /\ UNCHANGED <<callVars, netUsed>>
            [] kind = "pdf" -> BeginBytes /\ UNCHANGED mh
            [] kind = "page" -> BeginFetch("mine-crawl", MineRetries) /\ UNCHANGED mh
    /\ UNCHANGED <<rpc, runSpec, qIdx, mlane, nDomains, minedAny, ridx, nKept, skipped,
                   failedKinds, nWritten>>
    /\ UNCHANGED otherVars

\* ---- the fetch of candidatesFromHit returns: candidates may be pushed, and
\* the lane is left if out has reached the lane's cap
MineHitReturned ==
    /\ rpc = "mine"
    /\ fpc = "request"
    /\ call.limiter \in {"mine-crawl", "none"}
    /\ Returned
    /\ \E got \in BOOLEAN, full \in BOOLEAN :
          /\ minedAny' = (minedAny \/ got)
          /\ IF full
             THEN mlane' = mlane + 1 /\ qIdx' = 0 /\ mh' = 0
             ELSE mh' = mh - 1 /\ UNCHANGED <<mlane, qIdx>>
    /\ UNCHANGED <<rpc, runSpec, netUsed, nDomains, ridx, nKept, skipped, failedKinds,
                   nWritten>>
    /\ UNCHANGED otherVars

\* if (kept.length >= spec.target_count * 2) break
RunCrawlFull == nKept >= runSpec.target * KeptFactor

\* ---- the head of the crawl loop: the next candidate's page is fetched, or
\* the loop is left and kept is sorted, cut and written
CrawlStep ==
    /\ rpc = "crawl"
    /\ Awaited
    /\ IF ridx < nDomains /\ ~RunCrawlFull
       THEN /\ BeginFetch("crawl", DefaultMaxRetries)
            /\ UNCHANGED <<rpc, nWritten>>
       ELSE /\ rpc' = "done"
            /\ nWritten' = Min(runSpec.target, nKept)
            /\ UNCHANGED <<callVars, netUsed>>
    /\ UNCHANGED <<runSpec, qIdx, mlane, mh, nDomains, minedAny, ridx, nKept, skipped,
                   failedKinds>>
    /\ UNCHANGED otherVars

\* ---- fetchHtml returns to the crawl loop: `continue` on a failed fetch or a
\* page the evaluator does not keep, else kept.push.  CrawlReturnedRethrow
\* lets a failed fetch end the run.
CrawlReturnedRethrow ==
    /\ rpc = "crawl"
    /\ fpc = "request"
    /\ Returned
    /\ \E ok \in BOOLEAN, keep \in BOOLEAN :
          /\ keep => ok
          /\ nKept' = IF keep THEN nKept + 1 ELSE nKept
          /\ IF ok
             THEN ridx' = ridx + 1 /\ UNCHANGED <<rpc, skipped, failedKinds>>
             ELSE /\ rpc' = "crashed"
                  /\ skipped' = skipped \cup {ridx + 1}
                  /\ failedKinds' = failedKinds \cup {"crawl"}
                  /\ UNCHANGED ridx
    /\ UNCHANGED <<runSpec, qIdx, mlane, mh, netUsed, nDomains, minedAny, nWritten>>
    /\ UNCHANGED otherVars

CrawlReturned ==
    /\ rpc = "crawl"
    /\ fpc = "request"
    /\ Returned
    /\ ridx' = ridx + 1
    /\ \E ok \in BOOLEAN, keep \in BOOLEAN :
          /\ keep => ok
          /\ nKept' = IF keep THEN nKept + 1 ELSE nKept
          /\ IF ok
             THEN UNCHANGED <<skipped, failedKinds>>
             ELSE /\ skipped' = skipped \cup {ridx + 1}
                  /\ failedKinds' = failedKinds \cup {"crawl"}
    /\ UNCHANGED <<rpc, runSpec, qIdx, mlane, mh, netUsed, nDomains, minedAny, nWritten>>
    /\ UNCHANGED otherVars

InitRun ==
    /\ InitFetchVars
    /\ minIntervalMs = SearchIntervalMs
    /\ IdleRegistryVars
    /\ IdleEvalVars
    /\ IdleMineVars
    /\ IdleSearchVars
    /\ IdleCrawlVars
    /\ IdleNormVars
    /\ IdleLimiterVars
    /\ IdleExtraVars
    /\ rpc = "start"
    /\ runSpec \in RunSpecs
    /\ qIdx = 0
    /\ mlane = 1
    /\ mh = 0
    /\ fpc = "none"
    /\ call = NoCall
    /\ tries = 0
    /\ outstanding = <<>>
    /\ netUsed = FALSE
    /\ nDomains = 0
    /\ minedAny = FALSE
    /\ ridx = 0
    /\ nKept = 0
    /\ skipped = {}
    /\ failedKinds = {}
    /\ nWritten = 0

NextRun ==
    \/ RunStart
    \/ PassStep
    \/ FetchWaitDone
    \/ FetchRetry
    \/ FetchBackoffDone
    \/ SearchReturned
    \/ MineStep
    \/ MineSearchReturned
    \/ MineHitStep
    \/ MineHitReturned
    \/ CrawlStep
    \/ CrawlReturned

SpecRun == InitRun /\ [][NextRun]_vars

\* every call returns and the event loop runs whatever is ready: a step that
\* stays possible is taken
SpecRunFair == SpecRun /\ WF_vars(NextRun)

(***************************************************************************)
(* trust-proxy/mineTrustProxy.ts: candidatesFromHit on one hit, and main's *)
(* merge of the candidates it returns.  The text fetched and the names     *)
(* extractFirmNameHints finds in it are inputs.                            *)
(***************************************************************************)
HintsPerHit == 5        \* uniq(inferred).slice(0, 5)
EvidenceCap == 4        \* uniq(evidence).slice(0, 4)
MinFirmLength == 4      \* firm.length < 4, fallbackName.length >= 4
MaxHints == 6           \* names extractFirmNameHints returns, at most (12 in the code)

\* the hits a mining search returns: pages, PDFs, hits on directory domains
\* and on their subdomains, a url that does not parse
PdfPaths == {"/roster.pdf"}
MineHits == {
    Hit(U("https", TRUE, <<"acme", "com">>, "/team"), "Bay CPA - Houston"),
    Hit(U("https", TRUE, <<"www", "acme", "com">>, "/roster.pdf"), ""),
    Hit(U("https", TRUE, <<"bob", "biz">>, "/roster.pdf"), "TX"),
    Hit(U("https", TRUE, <<"yelp", "com">>, "/biz/acme"), "Bay CPA - Houston"),
    Hit(U("https", TRUE, <<"m", "yelp", "com">>, "/roster.pdf"), "Bay CPA - Houston"),
    Hit(Unparseable, "Bay CPA - Houston") }

\* /\.pdf(\?|#|$)/i.test(url) || /filetype=pdf/i.test(url), on the urls of the model
isPdfUrl(u) == u.ok /\ u.path \in PdfPaths

\* cleanFirmName, on the titles of the model: what follows " - " is cut, and
\* Houston, Texas and TX are taken out
cleanFirmName(raw) ==
    CASE raw = "Bay CPA - Houston" -> "Bay CPA"
      [] raw = "TX" -> ""
      [] OTHER -> raw

\* pageText: nothing (a failed fetch, an empty PDF), or text
PageTextsOfHit == {"", "members of the association", "offices nationwide"}
\* looksLikeNationalMegaFirm, on the texts and titles of the model
looksLikeNationalMegaFirm(title, text) == text = "offices nationwide"

\* names extractFirmNameHints can find (a Set: no name twice), in order
HintNames == <<"Acme Tax", "Bolt", "Cole", "Dunn", "Eads", "Ford", "Abc", "Top 10 Firms">>
\* /top\s+\d+/i.test(firm) || /best\s+/i.test(firm), on the names of the model
Superlative(firm) == firm \in {"Top 10 Firms"}

\* the names at the places S of HintNames, in order
RECURSIVE NamesAt(_)
NamesAt(S) ==
    IF S = {} THEN <<>>
    ELSE LET i == CHOOSE x \in S : \A y \in S : x <= y
         IN  <<HintNames[i]>> \o NamesAt(S \ {i})
HintLists == {NamesAt(S) : S \in {T \in SUBSET (1 .. Len(HintNames)) : Cardinality(T) <= MaxHints}}

\* `Mention detected via ${source}: "${firm}"`
Mention(source, firm) == "Mention detected via " \o source \o ": " \o firm

\* for (const firm of uniq(inferred).slice(0, 5)) { ... }: the guardrails, the
\* push onto the evidence array the candidates of the hit share, and the
\* candidate with uniq(evidence).slice(0, 4).
\* hitCandidate gives a candidate the evidence list made for it.
hitCandidate(source, u, firm, evidence) ==
    LET domain == normalizeDomainFromUrl(u)
    IN  [source |-> source, firm_name |-> firm, domain |-> domain,
         home_url |-> IF domain # <<>> THEN toHomeUrl(u) ELSE NullUrl,
         source_url |-> u, metro |-> Metro,
         evidence |-> Slice(Dedupe(evidence), EvidenceCap)]

RECURSIVE firmLoop(_, _, _, _, _)
firmLoop(source, u, firms, evidence, candidates) ==
    IF firms = <<>> THEN candidates
    ELSE LET firm == firms[1]
         IN  IF Len(firm) < MinFirmLength \/ Superlative(firm)
             THEN firmLoop(source, u, Tail(firms), evidence, candidates)
             ELSE LET pushed == Append(evidence, Mention(source, firm))
                  IN  firmLoop(source, u, Tail(firms), pushed,
                               Append(candidates, hitCandidate(source, u, firm, pushed)))

\* candidatesFromHit(source, metro, hit, crawlLimiter), with the text its fetch
\* gives and the names found in the combined text: the candidates returned
\* and the fetches issued
candidatesFromHit(source, h, pageText, nameHints) ==
    LET domain == normalizeDomainFromUrl(h.url)
        fetches == IF isPdfUrl(h.url) THEN <<Op("pdf", "none")>>
                   ELSE <<Op("page", "mine-crawl")>>
        fallbackName == cleanFirmName(h.title)
        inferred == IF nameHints # <<>> THEN nameHints
                    ELSE IF fallbackName # "" /\ Len(fallbackName) >= MinFirmLength
                    THEN <<fallbackName>>
                    ELSE <<>>
    IN  IF domain # <<>> /\ isProbablyDirectoryDomain(domain)
        THEN [cands |-> <<>>, calls |-> <<>>]
        ELSE IF h.title = "" /\ pageText = ""
        THEN [cands |-> <<>>, calls |-> fetches]
        ELSE IF looksLikeNationalMegaFirm(h.title, pageText)
        THEN [cands |-> <<>>, calls |-> fetches]
        ELSE [cands |-> firmLoop(source, h.url, Slice(Dedupe(inferred), HintsPerHit),
                                 <<>>, <<>>),
              calls |-> fetches]

\* for (const tp of trustProxyCandidates) { ... }, over the candidates of the hit
\* (mergeProxyLatestName also renames an existing candidate)
mergeProxyLatestName(m, tp) ==
    LET domain == IF tp.domain # <<>> THEN tp.domain ELSE normalizeDomain(tp.source_url)
        merged == mergeProxy(m, tp)
    IN  IF MapHas(m, domain) /\ MapHas(merged, domain)
        THEN MapSet(merged, domain, [MapGet(merged, domain) EXCEPT !.bestTitle = tp.firm_name])
        ELSE merged
mergeOne(m, tp) == mergeProxy(m, tp)
RECURSIVE mergeAll(_, _)
mergeAll(m, tps) ==
    IF tps = <<>> THEN m ELSE mergeAll(mergeOne(m, tps[1]), Tail(tps))

\* ---- mineSource calls candidatesFromHit on a hit
CandidatesFromHit ==
    /\ hpc = "idle"
    /\ \E h \in MineHits, source \in Sources, text \in PageTextsOfHit, names \in HintLists :
          LET r == candidatesFromHit(source, h, text, names)
          IN  /\ hitIn' = h
              /\ hitSource' = source
              /\ hitCands' = r.cands
              /\ hitCalls' = r.calls
    /\ hpc' = "mined"
    /\ UNCHANGED <<fetchVars, registryVars, evalVars, mineVars, searchVars, crawlVars,
                   normVars, limiterVars, runVars, chanVars>>

\* ---- main merges the candidates of the hit into the registry
MergeCandidates ==
    /\ hpc = "mined"
    /\ prevRegistry' = candidatesByDomain
    /\ candidatesByDomain' = mergeAll(candidatesByDomain, hitCands)
    /\ hpc' = "merged"
    /\ UNCHANGED <<phase, log, hitIn, hitSource, hitCalls, hitCands>>
    /\ UNCHANGED <<fetchVars, evalVars, mineVars, searchVars, crawlVars,
                   normVars, limiterVars, runVars, chanVars>>

\* the registry the passes left: empty, or holding acme.com
InitHit ==
    /\ InitFetchVars
    /\ minIntervalMs = CrawlIntervalMs
    /\ phase = "trust-proxy"
    /\ \E n \in {0, 1} :
          /\ log = SubSeq(CrawlHits, 1, n)
          /\ candidatesByDomain = InsertHits(<<>>, log)
    /\ prevRegistry = <<>>
    /\ IdleEvalVars
    /\ IdlePipelineVars

NextHit ==
    \/ CandidatesFromHit
    \/ MergeCandidates

SpecHit == InitHit /\ [][NextHit]_vars

(***************************************************************************)
(* The RateLimiter instances of one run of main (run-cpa, three passes):   *)
(* main makes searchLimiter and crawlLimiter, and mineTrustProxyCandidates *)
(* makes a searchLimiter and a crawlLimiter of its own.  One request is    *)
(* one attempt of fetchHtml, or one fetchBytes; main awaits each.          *)
(***************************************************************************)
MineSearchIntervalMs == 950     \* new RateLimiter(950) in mineTrustProxyCandidates
MineCrawlIntervalMs == 800      \* new RateLimiter(800) in mineTrustProxyCandidates
MaxRequests == 3                \* requests of a run

\* minIntervalMs of each instance
IntervalOf(l) ==
    CASE l = "search" -> SearchIntervalMs
      [] l = "crawl" -> CrawlIntervalMs
      [] l = "mine-search" -> MineSearchIntervalMs
      [] l = "mine-crawl" -> MineCrawlIntervalMs

\* remaining = minIntervalMs - (Date.now() - lastRunAt), for the instance l
remainingOf(l) == IntervalOf(l) - (now - limiters[l])

\* the request goes out at time t
Issued(kind, lim, t) ==
    reqs' = Append(reqs, [kind |-> kind, by |-> cph, limiter |-> lim, at |-> t])

\* ---- a request of the given kind is begun: fetchHtml waits on the limiter it
\* was handed and then fetches; fetchBytes (lim = "none") fetches at once
Request(kind, lim) ==
    /\ chCall = NoRequest
    /\ Len(reqs) < MaxRequests
    /\ IF lim = "none"
       THEN /\ Issued(kind, lim, now)
            /\ UNCHANGED <<limiters, chCall, chWake>>
       ELSE IF remainingOf(lim) > 0
       THEN /\ chCall' = [kind |-> kind, limiter |-> lim]
            /\ chWake' = now + remainingOf(lim)
            /\ UNCHANGED <<limiters, reqs>>
       ELSE /\ limiters' = [limiters EXCEPT ![lim] = now]
            /\ Issued(kind, lim, now)
            /\ UNCHANGED <<chCall, chWake>>
    /\ UNCHANGED <<cph, fetchVars, registryVars, evalVars, mineVars, searchVars, crawlVars,
                   normVars, limiterVars, runVars, hitVars>>

\* the limiter a request of the given kind is handed in the phase the run is in
LimiterFor(kind) ==
    CASE cph = "pass" /\ kind = "search" -> "search"
      [] cph = "mine" /\ kind = "search" -> "mine-search"
      [] cph = "mine" /\ kind = "page" -> "mine-crawl"
      [] cph = "mine" /\ kind = "pdf" -> "none"
      [] cph = "crawl" /\ kind = "page" -> "crawl"

\* ---- runDiscoveryPass searches a query
PassSearch == cph = "pass" /\ Request("search", LimiterFor("search"))
\* ---- mineSource searches a query of a lane
MineSearch == cph = "mine" /\ Request("search", LimiterFor("search"))
\* ---- candidatesFromHit fetches the page of a hit
MinePage == cph = "mine" /\ Request("page", LimiterFor("page"))
\* ---- candidatesFromHit fetches the bytes of a PDF hit
MinePdf == cph = "mine" /\ Request("pdf", LimiterFor("pdf"))
\* ---- the crawl loop fetches a candidate's home page
CrawlPage == cph = "crawl" /\ Request("page", LimiterFor("page"))

\* ---- the sleep(remaining) timer fires, not before it is due: lastRunAt is
\* set and the request goes out
RequestWake ==
    /\ chCall # NoRequest
    /\ now' = Max(now, chWake)
    /\ limiters' = [limiters EXCEPT ![chCall.limiter] = now']
    /\ Issued(chCall.kind, chCall.limiter, now')
    /\ chCall' = NoRequest
    /\ UNCHANGED <<minIntervalMs, lastRunAt, doneTimes, pc, url, maxRetries, timeoutMs,
                   attempt, res, sleepUntil, abortAt, result, trace>>
    /\ UNCHANGED <<cph, chWake, registryVars, evalVars, mineVars, searchVars, crawlVars,
                   normVars, limiterVars, runVars, hitVars>>

\* ---- main goes on: from the passes to the mining (or, with trust_proxy not
\* enabled, to the crawl), from the mining to the crawl, from the crawl to the end
ChannelPhase ==
    /\ chCall = NoRequest
    /\ \/ cph = "pass" /\ cph' \in {"mine", "crawl"}
       \/ cph = "mine" /\ cph' = "crawl"
       \/ cph = "crawl" /\ cph' = "done"
    /\ UNCHANGED <<limiters, chCall, chWake, reqs>>
    /\ UNCHANGED <<fetchVars, registryVars, evalVars, mineVars, searchVars, crawlVars,
                   normVars, limiterVars, runVars, hitVars>>

InitPaced ==
    /\ InitFetchVars
    /\ minIntervalMs = SearchIntervalMs
    /\ IdleRegistryVars
    /\ IdleEvalVars
    /\ IdlePipelineVars

NextPaced ==
    \/ PassSearch
    \/ MineSearch
    \/ MinePage
    \/ MinePdf
    \/ CrawlPage
    \/ RequestWake
    \/ ChannelPhase
    \/ Tick /\ UNCHANGED <<registryVars, evalVars, pipelineVars>>

SpecPaced == InitPaced /\ [][NextPaced]_vars

(***************************************************************************)
(* Properties of fetchHtml and RateLimiter, read off the history.          *)
(***************************************************************************)
EventIdx(e) == {i \in 1 .. Len(trace) : trace[i].ev = e}
Requests == Cardinality(EventIdx("request"))
Waits == Cardinality(EventIdx("wait"))
\* the attempt under way at position j of the history
AttemptAt(j) == Cardinality({i \in EventIdx("request") : i < j})
SuccessStatus(s) == s \in 200 .. 299
\* position j ends an attempt in failure: an error, or a non-OK status
EndsAttempt(j) ==
    \/ trace[j].ev = "error"
    \/ trace[j].ev = "status" /\ ~SuccessStatus(trace[j].n)
RetryableEnd(j) ==
    \/ trace[j].ev = "error"
    \/ trace[j].ev = "status" /\ (trace[j].n = 429 \/ trace[j].n >= 500)
Ends == {j \in 1 .. Len(trace) : EndsAttempt(j)}

\* C1: every request of a fetchHtml call is directly preceded by a completed
\* limiter.wait() of its own, and a call that returned made as many waits as requests.
C1_WaitBeforeEveryRequest ==
    /\ \A i \in EventIdx("request") : i > 1 /\ trace[i - 1].ev = "wait"
    /\ \A i \in EventIdx("wait") : i < Len(trace) /\ trace[i + 1].ev = "request"
    /\ pc = "returned" => Waits = Requests

C1_Witness == pc = "returned" /\ Requests = 3 /\ Waits = 3

\* C2: two consecutive completions of wait() on the instance are at least
\* minIntervalMs apart, and lastRunAt is the clock of the latest completion.
C2_LimiterPacing ==
    /\ Len(doneTimes) = 2 => doneTimes[2] - doneTimes[1] >= minIntervalMs
    /\ Len(doneTimes) >= 1 => lastRunAt = doneTimes[Len(doneTimes)]

C2_Witness ==
    /\ Len(doneTimes) = 2
    /\ minIntervalMs = 950
    /\ doneTimes[2] - doneTimes[1] = 950

\* C3: fetchHtml never raises; a returned result with ok has html and a success
\* status, one without ok has an error string, with status 0 and the requested
\* url after an error, and the response's status and final url after a non-OK status.
C3_NeverRaises ==
    /\ pc # "raised"
    /\ pc = "returned" =>
         /\ result.ok =>
               /\ result.html # Undefined
               /\ SuccessStatus(result.status)
         /\ ~result.ok =>
               /\ result.error # Undefined
               /\ result.html = Undefined
               /\ IF Len(trace) >= 2 /\ trace[Len(trace) - 1].ev = "status"
                  THEN /\ result.status = trace[Len(trace) - 1].n
                       /\ result.url = res.url
                  ELSE /\ result.status = 0
                       /\ result.url = url

C3_Witness ==
    /\ pc = "returned"
    /\ ~result.ok
    /\ Len(trace) >= 3
    /\ trace[Len(trace) - 1].ev = "error"
    /\ trace[Len(trace) - 2].ev = "status"

\* C4: for maxRetries >= 0 a call issues at most maxRetries + 1 requests; when it
\* has returned it issued exactly maxRetries + 1 if every attempt ended in a
\* retryable failure, and exactly one if the first attempt succeeded.
C4_RequestBudget ==
    maxRetries >= 0 =>
        /\ Requests <= maxRetries + 1
        /\ pc = "returned" =>
             /\ Requests >= 1
             /\ (Cardinality(Ends) = Requests /\ \A j \in Ends : RetryableEnd(j))
                   => Requests = maxRetries + 1
             /\ (Len(trace) >= 4 /\ trace[3].ev = "status" /\ SuccessStatus(trace[3].n)
                   /\ trace[4].ev = "return")
                   => Requests = 1

C4_Witness ==
    /\ pc = "returned"
    /\ maxRetries = 2
    /\ Requests = 3
    /\ \A j \in Ends : RetryableEnd(j)
    /\ Cardinality(Ends) = 3

\* C5: an attempt is retried (a backoff sleep, then a wait and a request) exactly
\* when it ended with 429, a status >= 500 or an error while retries remain; any
\* other failed attempt is the last thing the call does: it returns ok = false
\* with that status, with no sleep and no further request.
C5_RetryCondition ==
    \A j \in Ends :
        /\ j < Len(trace)
        /\ IF RetryableEnd(j) /\ AttemptAt(j) <= maxRetries
           THEN /\ trace[j + 1].ev = "sleep"
                /\ j + 2 <= Len(trace) => trace[j + 2].ev = "wait"
           ELSE /\ trace[j + 1].ev = "return"
                /\ j + 1 = Len(trace)
                /\ pc = "returned"
                /\ ~result.ok
                /\ result.status = (IF trace[j].ev = "status" THEN trace[j].n ELSE 0)

C5_Witness ==
    /\ pc = "returned"
    /\ result.status = 404
    /\ maxRetries = 2
    /\ Requests = 2


(***************************************************************************)
(* Properties of the candidate registry, read off the history of sightings.*)
(***************************************************************************)
\* the hits of hs inserted, in order, into the registry m
SightDomain(s) == normalizeDomain(s.url)
BannedOrSubdomain(d) ==
    \E b \in banned :
        \/ d = b
        \/ \E n \in 1 .. Len(d) : n < Len(d) /\ SubSeq(d, n + 1, Len(d)) = b
Accepted(s) == SightDomain(s) # <<>> /\ ~BannedOrSubdomain(SightDomain(s))
AcceptedDomains == {SightDomain(log[i]) : i \in {j \in 1 .. Len(log) : Accepted(log[j])}}
FirstSighting(d) ==
    log[CHOOSE i \in 1 .. Len(log) :
            /\ SightDomain(log[i]) = d
            /\ \A j \in 1 .. i - 1 : SightDomain(log[j]) # d]

\* C6: the registry holds exactly one candidate per accepted normalized domain
\* sighted, under the key equal to its domain field; its size is the number of
\* those domains; and the candidate created at a domain's first sighting is
\* never removed or replaced.
C6_OneCandidatePerDomain ==
    /\ \A i \in 1 .. Len(candidatesByDomain) :
          /\ candidatesByDomain[i].key = candidatesByDomain[i].value.domain
          /\ \A j \in 1 .. Len(candidatesByDomain) :
                candidatesByDomain[i].value.domain = candidatesByDomain[j].value.domain
                   => i = j
          /\ LET c == candidatesByDomain[i].value
                 f == FirstSighting(c.domain)
             IN  c.discoveredUrls[1] = f.url /\ c.origin = f.kind
    /\ MapKeys(candidatesByDomain) = AcceptedDomains
    /\ Len(candidatesByDomain) = Cardinality(AcceptedDomains)
    /\ MapKeys(prevRegistry) \subseteq MapKeys(candidatesByDomain)

C6_Witness ==
    /\ Len(log) = 3
    /\ Len(candidatesByDomain) = 2
    /\ \A i \in 1 .. 3 : Accepted(log[i])
    /\ log[1].kind = "search"
    /\ log[1].url.host # log[2].url.host
    /\ SightDomain(log[1]) = SightDomain(log[2])
    /\ log[3].kind = "trust-proxy"

\* C7: no registry key is the empty domain, a banned domain or a subdomain of
\* one, and a rejected sighting (search hit or proxy candidate) leaves the
\* registry as it was.
C7_NoBannedKey ==
    /\ \A k \in MapKeys(candidatesByDomain) : k # <<>> /\ ~BannedOrSubdomain(k)
    /\ (log # <<>> /\ ~Accepted(log[Len(log)])) => candidatesByDomain = prevRegistry

C7_Witness ==
    /\ Len(log) = 3
    /\ Accepted(log[1])
    /\ log[2].kind = "search"
    /\ log[2].url.host = <<"m", "yelp", "com">>
    /\ log[3].kind = "trust-proxy"
    /\ ~Accepted(log[3])
    /\ Len(candidatesByDomain) = 1

\* C8: the hits a discovery pass has handled, inserted into an empty registry in
\* any other order, give the same set of registry domains.
C8_OrderIndependentDomains ==
    (\A i \in 1 .. Len(log) : log[i].kind = "search") =>
        \A p \in Permutations(1 .. Len(log)) :
            MapKeys(InsertHits(<<>>, [i \in 1 .. Len(log) |-> log[p[i]]]))
                = MapKeys(candidatesByDomain)

C8_Witness ==
    /\ Len(log) = 3
    /\ \A i \in 1 .. 3 : log[i].kind = "search"
    /\ Len(candidatesByDomain) = 2
    /\ SightDomain(log[1]) = SightDomain(log[3])
    /\ Accepted(log[1])
    /\ Accepted(log[2])
    /\ SightDomain(log[2]) # SightDomain(log[1])


(***************************************************************************)
(* Properties of evaluateCpaSite.                                          *)
(***************************************************************************)
\* C9: keep is true exactly when both required signals are set and none of the
\* four negative signals is.
C9_KeepRule ==
    evaled.keep =
        (/\ evaled.signals.cpa_identity_present
         /\ evaled.signals.construction_language
         /\ ~evaled.signals.all_small_businesses_language
         /\ ~evaled.signals.individual_tax_focus
         /\ ~evaled.signals.national_firm_marketing
         /\ ~evaled.signals.directory_or_list_site)

C9_Witness ==
    /\ evaled.keep
    /\ evaled.signals.job_costing
    /\ Len(combinedText) = 3

\* C10: whatever positive signals are present, a text in which national-firm
\* marketing is detected (one containing "nationwide", for one) is killed and its
\* reasons include the national/regional marketing reason.
C10_NationalKills ==
    /\ (\E i \in 1 .. Len(combinedText) : combinedText[i] = "nationwide")
          => evaled.signals.national_firm_marketing
    /\ evaled.signals.national_firm_marketing =>
          /\ ~evaled.keep
          /\ \E i \in 1 .. Len(evaled.reasons) : evaled.reasons[i] = ReasonNational

C10_Witness ==
    /\ evaled.signals.national_firm_marketing
    /\ evaled.signals.job_costing
    /\ evaled.signals.wip
    /\ evaled.signals.percentage_of_completion
    /\ evaled.score > 0
    /\ ~evaled.keep


\* the phrases of the vocabulary that one of the negative pattern lists matches
NegativePhrases ==
    {"all industries", "personal tax", "1040", "tax preparation", "nationwide",
     "top 10", "directory"}
Contains(t, w) == \E i \in 1 .. Len(t) : t[i] = w
NoNegativePhrase(t) == \A i \in 1 .. Len(t) : t[i] \notin NegativePhrases

\* C11 as stated: a text with "construction" and "job costing" and no negative
\* phrase is kept, with a positive score and no reasons.
C11_ScenarioB_AsStated ==
    (/\ Contains(combinedText, "construction")
     /\ Contains(combinedText, "job costing")
     /\ NoNegativePhrase(combinedText))
        => (evaled.keep /\ evaled.score > 0 /\ evaled.reasons = <<>>)

\* C11, amended: a text with "construction" and "job costing", no negative
\* phrase, and a CPA/accounting-firm identity phrase is kept, with a positive
\* score and no reasons; without an identity phrase it is not kept and the
\* reasons name the missing identity.
C11_ScenarioB ==
    (/\ Contains(combinedText, "construction")
     /\ Contains(combinedText, "job costing")
     /\ NoNegativePhrase(combinedText))
        => IF Contains(combinedText, "CPA") \/ Contains(combinedText, "accounting firm")
           THEN evaled.keep /\ evaled.score > 0 /\ evaled.reasons = <<>>
           ELSE ~evaled.keep /\ evaled.reasons = <<ReasonNoIdentity>>

C11_Witness ==
    /\ combinedText = <<"CPA", "construction", "job costing">>
    /\ evaled.keep
    /\ evaled.score = 60
    /\ evaled.reasons = <<>>

\* the signals that add to the score when set
PositiveSignals ==
    {"cpa_identity_present", "construction_language", "contractor_language",
     "job_costing", "wip", "percentage_of_completion", "progress_billing",
     "retainage", "change_orders", "bookkeeping_language", "quickbooks_language",
     "spanish_detected"}
NegativeSignals ==
    {"all_small_businesses_language", "individual_tax_focus",
     "national_firm_marketing", "directory_or_list_site"}

\* detections s2 are those of s1 with one more positive-weight signal: one more
\* boolean set, or one more trade mentioned
OneMorePositive(s1, s2) ==
    \/ /\ s1.trade_mentions = s2.trade_mentions
       /\ \A k \in NegativeSignals : s1[k] = s2[k]
       /\ \E k \in PositiveSignals :
             /\ ~s1[k] /\ s2[k]
             /\ \A o \in PositiveSignals \ {k} : s1[o] = s2[o]
    \/ /\ Len(s2.trade_mentions) = Len(s1.trade_mentions) + 1
       /\ \A k \in NegativeSignals \cup PositiveSignals : s1[k] = s2[k]

\* C12: when the detections of a text are those of the text of the call before
\* with one more positive-weight signal, its score is greater than or equal to
\* the score of the call before.
C12_ScoreMonotone ==
    OneMorePositive(earlier.result.signals, evaled.signals)
        => evaled.score >= earlier.result.score

C12_Witness ==
    /\ earlier.text = <<"roofing", "español">>
    /\ combinedText = <<"roofing", "hvac", "español">>
    /\ OneMorePositive(earlier.result.signals, evaled.signals)
    /\ earlier.result.score = 8
    /\ evaled.score = 10

C14_DisabledMinesNothing ==
    ~mineSpec.enabled =>
        /\ mined = <<>>
        /\ mineCalls = NoCalls
        /\ mpc \in {"idle", "done"}

C14_Witness ==
    /\ ~mineSpec.enabled
    /\ mineSpec.queries[1] > 0
    /\ mineSpec.max_candidates_total > 0
    /\ mpc = "done"
    /\ mined = <<>>

CountOf(seq, x) == Cardinality({i \in 1 .. Len(seq) : seq[i] = x})

\* C15 as stated: for all caps >= 0, no lane contributes more candidates than its
\* cap, and the list returned has at most max_candidates_total candidates.
C15_CapsRespected ==
    mpc = "done" =>
        /\ \A l \in LaneIds : CountOf(mined, Lanes[l]) <= maxOut(l)
        /\ Len(mined) <= mineSpec.max_candidates_total

\* C16 as stated: no search or fetch goes out for a lane whose cap is reached,
\* nor for any lane once the candidates emitted reach the total cap.
C16_CapsStopScan ==
    /\ ~late.lane
    /\ ~late.total


(***************************************************************************)
(* Properties of duckDuckGoSearch.                                         *)
(***************************************************************************)
\* C17: a query whose fetch failed (non-OK status, retries exhausted, network
\* error or timeout, empty body) gives no hits and leaves the registry as it
\* was; nothing is raised, and the pass goes on to the next query.
C17_FailureAbsorbed ==
    /\ spc \in {"pass", "fetched"}
    /\ Len(outcomes) = queriesDone
    /\ (spc = "pass" /\ queriesDone > 0 /\ outcomes[queriesDone]) =>
          /\ searchHits = <<>>
          /\ candidatesByDomain = prevRegistry

C17_Witness ==
    /\ spc = "pass"
    /\ outcomes = <<TRUE, FALSE>>
    /\ prevRegistry = <<>>
    /\ Len(candidatesByDomain) = 2

\* the blocks of the page with a title and a target, in document order
ValidBlocks == {i \in 1 .. Len(page) : page[i].title # "" /\ page[i].href.kind # "none"}
KthValid(k) == CHOOSE i \in ValidBlocks : Cardinality({j \in ValidBlocks : j <= i}) = k

\* C18: the hits returned are the first maxResults blocks, in document order,
\* that have a title and a target, each tagged with the query; there are never
\* more than maxResults of them.
C18_FirstMaxResults ==
    (spc = "pass" /\ queriesDone > 0) =>
        /\ Len(searchHits) <= maxResults
        /\ ~outcomes[queriesDone] =>
              /\ Len(searchHits) = Min(maxResults, Cardinality(ValidBlocks))
              /\ \A k \in 1 .. Len(searchHits) :
                    /\ searchHits[k].title = page[KthValid(k)].title
                    /\ searchHits[k].url = page[KthValid(k)].href.url
                    /\ searchHits[k].sourceQuery = SearchQueries[queriesDone]

C18_Witness ==
    /\ spc = "pass" /\ queriesDone = 1
    /\ maxResults = 1
    /\ ValidBlocks = {1, 2}
    /\ page[1].title # page[2].title
    /\ Len(searchHits) = 1
    /\ searchHits[1].title = page[1].title


(***************************************************************************)
(* Properties of the crawl.                                                *)
(***************************************************************************)
\* C19: kept never holds more than 2 * target_count firms, and every page fetch
\* of the crawl is issued with fewer than 2 * target_count firms kept; with
\* target_count = 0 no page is fetched.
C19_CrawlStopsAtCap ==
    /\ Len(kept) <= KeptFactor * targetCount
    /\ \A i \in 1 .. Len(crawlLog) : crawlLog[i] < KeptFactor * targetCount
    /\ targetCount = 0 => crawlLog = <<>>

C19_Witness ==
    /\ cpc = "done"
    /\ targetCount = 1
    /\ Len(candidatesByDomain) = 3
    /\ Len(kept) = 2
    /\ crawlLog = <<0, 1>>

RangeOf(xs) == {xs[i] : i \in 1 .. Len(xs)}

KillConditions(s) ==
    {k \in NegativeSignals : s[k]}
    \cup {k \in {"cpa_identity_present", "construction_language"} : ~s[k]}

\* C28: reasons is empty exactly when keep is true, and there are as many
\* reasons as kill conditions triggered: a condition adds its reason whether or
\* not an earlier one triggered.
C28_ReasonsCollected ==
    /\ (evaled.reasons = <<>>) = evaled.keep
    /\ Len(evaled.reasons) = Cardinality(KillConditions(evaled.signals))
    /\ Cardinality(RangeOf(evaled.reasons)) = Len(evaled.reasons)

C28_Witness ==
    /\ Len(evaled.reasons) = 3
    /\ evaled.signals.cpa_identity_present
    /\ ~evaled.signals.construction_language
    /\ evaled.signals.all_small_businesses_language
    /\ evaled.signals.national_firm_marketing

\* detections s2 are those of s1 with one more negative kill signal set
OneMoreNegative(s1, s2) ==
    /\ s1.trade_mentions = s2.trade_mentions
    /\ \A k \in PositiveSignals : s1[k] = s2[k]
    /\ \E k \in NegativeSignals :
          /\ ~s1[k] /\ s2[k]
          /\ \A o \in NegativeSignals \ {k} : s1[o] = s2[o]

\* C29: when the detections of a text are those of the text of the call before
\* with one more negative kill signal set, its score is strictly lower than the
\* score of the call before.
C29_NegativeWeightsMirrorKills ==
    OneMoreNegative(earlier.result.signals, evaled.signals)
        => evaled.score < earlier.result.score


(***************************************************************************)
(* The backoff of fetchHtml, read off the history.                         *)
(***************************************************************************)
\* C30: the sleep after the k-th attempt of a call lasts 500 * k milliseconds
\* and follows a retryable failure with k <= maxRetries; every such failure is
\* followed by that sleep and then the next attempt; attempt maxRetries + 1 is
\* followed by no sleep.
C30_LinearBackoff ==
    /\ \A j \in EventIdx("sleep") :
          /\ AttemptAt(j) \in 1 .. maxRetries
          /\ trace[j].n = 500 * AttemptAt(j)
          /\ j > 1 /\ RetryableEnd(j - 1)
          /\ j < Len(trace) => trace[j + 1].ev = "wait"
    /\ \A j \in Ends :
          (RetryableEnd(j) /\ AttemptAt(j) <= maxRetries)
             => (j < Len(trace) /\ trace[j + 1].ev = "sleep")
    /\ \A j \in 1 .. Len(trace) :
          AttemptAt(j) = maxRetries + 1 => trace[j].ev # "sleep"
    /\ pc = "backoff" =>
          /\ trace[Len(trace)].ev = "sleep"
          /\ trace[Len(trace)].n = 500 * attempt

C30_Witness ==
    /\ pc = "returned"
    /\ Requests = 3
    /\ \E i, j \in EventIdx("sleep") :
          /\ i < j
          /\ trace[i].n = 500 /\ trace[i - 1].ev = "status"
          /\ trace[j].n = 1000 /\ trace[j - 1].ev = "error"
    /\ trace[Len(trace) - 1].ev = "status"
    /\ trace[Len(trace) - 1].n = 503


(***************************************************************************)
(* The title a candidate keeps.                                            *)
(***************************************************************************)
\* the sightings of domain d, by position in the history
SightingsOf(d) == {i \in 1 .. Len(log) : SightDomain(log[i]) = d}
\* the earliest sighting of d among those with a title of maximal length
EarliestLongest(d) ==
    CHOOSE i \in SightingsOf(d) :
        /\ \A j \in SightingsOf(d) : Len(log[j].title) <= Len(log[i].title)
        /\ \A j \in SightingsOf(d) :
              Len(log[j].title) = Len(log[i].title) => i <= j

\* C27: a search sighting of a domain already in the registry changes bestTitle
\* only when its title is strictly longer, and then to that title; so each
\* candidate's bestTitle is the title of the earliest sighting among those of
\* its domain whose title is of maximal length.
C27_BestTitleLongestEarliest ==
    /\ \A i \in 1 .. Len(candidatesByDomain) :
          LET c == candidatesByDomain[i].value
          IN  c.bestTitle = log[EarliestLongest(c.domain)].title
    /\ (log # <<>> /\ MapHas(prevRegistry, SightDomain(log[Len(log)]))) =>
          LET last == log[Len(log)]
              before == MapGet(prevRegistry, SightDomain(last)).bestTitle
              after == MapGet(candidatesByDomain, SightDomain(last)).bestTitle
          IN  after = IF Len(last.title) > Len(before) THEN last.title ELSE before

C27_Witness ==
    /\ Len(log) = 3
    /\ log[1].title = "Acme CPA"
    /\ log[2].title = "Home"
    /\ log[3].title = "Acme Tax"
    /\ Len(candidatesByDomain) = 1
    /\ candidatesByDomain[1].value.bestTitle = "Acme CPA"


(***************************************************************************)
(* The merge of a mined proxy candidate.                                   *)
(***************************************************************************)
\* C26: a proxy candidate of a domain already in the registry is merged as a
\* search hit is: its tag is appended to sourceQueries, its source URL to
\* discoveredUrls, and bestTitle becomes its firm name when that is longer.
C26_ProxyMergedAsSearchHit ==
    (/\ log # <<>>
     /\ log[Len(log)].kind = "trust-proxy"
     /\ MapHas(prevRegistry, SightDomain(log[Len(log)]))) =>
        LET last == log[Len(log)]
            before == MapGet(prevRegistry, SightDomain(last))
            after == MapGet(candidatesByDomain, SightDomain(last))
        IN  /\ after.sourceQueries = Append(before.sourceQueries, "trust-proxy:" \o last.q)
            /\ after.discoveredUrls = Append(before.discoveredUrls, last.url)
            /\ after.bestTitle = IF Len(last.title) > Len(before.bestTitle)
                                 THEN last.title ELSE before.bestTitle


(***************************************************************************)
(* Properties of normalizeDomain.                                          *)
(***************************************************************************)
\* host h without one leading www label, in lower case
FoldHost(h) ==
    LET l == toLowerCase(h)
    IN  IF Len(l) >= 2 /\ l[1] = "www" THEN Tail(l) ELSE l
\* hosts that differ only by letter case or by one leading www label
SameUpToCaseAndWww(h1, h2) ==
    \/ toLowerCase(h1) = toLowerCase(h2)
    \/ FoldHost(h1) = toLowerCase(h2)
    \/ toLowerCase(h1) = FoldHost(h2)

UnderPaced ==
    /\ Len(finished) = 2
    /\ finished[2].at - finished[1].at < minIntervalMs

\* C22: with several callers inside wait() on one instance, two consecutive
\* completions can be less than minIntervalMs apart, and whenever they are,
\* they are completions of two different callers, the later of which read
\* lastRunAt before the earlier one recorded its completion.
C22_ConcurrentUnderPace ==
    UnderPaced =>
        /\ finished[1].by # finished[2].by
        /\ finished[2].read < finished[1].at

C22_Witness ==
    /\ UnderPaced
    /\ minIntervalMs = 950
    /\ finished[1].by = 1
    /\ finished[2].by = 2
    /\ finished[2].at = finished[1].at
    /\ finished[1].read = 1000


(***************************************************************************)
(* Properties of a whole run of main.                                      *)
(***************************************************************************)
\* C21: at any time of a run at most one limiter wait or network request is
\* under way, and it is the one main awaits; none is under way before the run,
\* during a backoff or after the run; so no two wait() calls on one limiter
\* overlap.
C21_OneOutstanding ==
    /\ Len(outstanding) <= 1
    /\ (outstanding # <<>>) = (fpc \in {"wait", "request"})
    /\ rpc \in {"start", "done", "crashed"} => outstanding = <<>>
    /\ \A i, j \in 1 .. Len(outstanding) :
          (/\ outstanding[i].op = "wait" /\ outstanding[j].op = "wait"
           /\ outstanding[i].limiter = outstanding[j].limiter) => i = j

C21_Witness ==
    /\ rpc = "crawl"
    /\ outstanding = <<Op("wait", "crawl")>>
    /\ tries = 2
    /\ ridx = 1
    /\ runSpec.trust.enabled
    /\ minedAny
    /\ runSpec.pass3 = 1

\* C23: a run whose spec lacks the pass-1 or the pass-2 query list issues no
\* limiter wait and no network request.
C23_ValidatedBeforeNetwork ==
    (runSpec.pass1 = Missing \/ runSpec.pass2 = Missing) => ~netUsed

ValidRunSpec == runSpec.pass1 # Missing /\ runSpec.pass2 # Missing

\* C24: when a page fetch of the crawl returns, failed or not, the loop is at
\* the next candidate with everything kept so far still kept, a failed fetch
\* adding nothing; and a run whose spec has its required lists never ends in
\* an error and reaches the sort-and-write step, whichever fetches fail.
C24_FailuresAbsorbed ==
    /\ [][(rpc = "crawl" /\ fpc = "request" /\ fpc' = "none") =>
             /\ rpc' = "crawl"
             /\ ridx' = ridx + 1
             /\ nDomains' = nDomains
             /\ nKept' \in {nKept, nKept + 1}
             /\ skipped' # skipped =>
                   (nKept' = nKept /\ skipped' = skipped \cup {ridx + 1})]_vars
    /\ [](ValidRunSpec => rpc # "crashed")
    /\ ValidRunSpec => <>(rpc = "done")

C24_Witness ==
    /\ rpc = "done"
    /\ skipped = {1}
    /\ ridx = 2
    /\ nKept = 1
    /\ nWritten = 1
    /\ "search" \in failedKinds


Extends(s, t) == Len(s) >= Len(t) /\ SubSeq(s, 1, Len(t)) = t

\* C37: the crawl passes each candidate's home URL to fetchHtml at most once,
\* and in registry insertion order: of two candidates crawled, the one crawled
\* first is the one sighted first.
C37_CrawledOnceInSightingOrder ==
    /\ Len(crawled) = crawlIdx
    /\ \A i \in 1 .. Len(crawled) :
          /\ crawled[i].domain = candidatesByDomain[i].key
          /\ crawled[i].url = UrlString(candidatesByDomain[i].value.homeUrl)
          /\ \A j \in 1 .. Len(crawled) :
                i < j =>
                   /\ crawled[i].url # crawled[j].url
                   /\ \E a, b \in 1 .. Len(log) :
                         /\ a < b
                         /\ FirstSighting(crawled[i].domain) = log[a]
                         /\ \A k \in 1 .. a - 1 : SightDomain(log[k]) # crawled[i].domain
                         /\ FirstSighting(crawled[j].domain) = log[b]
                         /\ \A k \in 1 .. b - 1 : SightDomain(log[k]) # crawled[j].domain

C37_Witness ==
    /\ Len(crawled) = 2
    /\ Len(log) = 3
    /\ SightDomain(log[1]) = SightDomain(log[3])
    /\ crawled[1].domain = SightDomain(log[1])
    /\ cpc = "done"

\* C38: a sighting of a domain the registry holds leaves that candidate's
\* domain, homeUrl and origin as they were and only adds to its provenance
\* lists (and may replace bestTitle); a candidate created by search keeps origin
\* "search" when the trust-proxy merge sights it; and the crawl, with its
\* evaluations, leaves the whole registry as it was.
C38_SightingKeepsIdentity ==
    /\ [][/\ Len(candidatesByDomain') >= Len(candidatesByDomain)
          /\ \A i \in 1 .. Len(candidatesByDomain) :
                LET old == candidatesByDomain[i]
                    new == candidatesByDomain'[i]
                IN  /\ new.key = old.key
                    /\ new.value.domain = old.value.domain
                    /\ new.value.homeUrl = old.value.homeUrl
                    /\ new.value.origin = old.value.origin
                    /\ Extends(new.value.sourceQueries, old.value.sourceQueries)
                    /\ Extends(new.value.discoveredUrls, old.value.discoveredUrls)]_vars
    /\ [][phase = "crawl" => candidatesByDomain' = candidatesByDomain]_vars
    /\ [](\A i \in 1 .. Len(candidatesByDomain) :
             candidatesByDomain[i].value.origin = FirstSighting(candidatesByDomain[i].key).kind)

C38_Witness ==
    /\ Len(candidatesByDomain) = 1
    /\ candidatesByDomain[1].value.origin = "search"
    /\ candidatesByDomain[1].value.sourceQueries =
          <<PassQuery("pass3"), "trust-proxy:supplier">>
    /\ log[2].kind = "trust-proxy"
    /\ Len(crawled) = 1
    /\ Len(kept) = 1


(***************************************************************************)
(* The order of the phases of main.                                        *)
(***************************************************************************)
\* the place of a phase in the run
PhaseRank(p) ==
    CASE p = "start" -> 0
      [] p = "pass1" -> 1
      [] p = "pass2" -> 2
      [] p = "pass3" -> 3
      [] p = "mine" -> 4
      [] p = "crawl" -> 5
      [] p = "done" -> 6
      [] p = "crashed" -> 7

\* the phase whose requests wait on the limiter lim
PhasesOf(lim) ==
    CASE lim = "search" -> Passes
      [] lim \in {"mine-search", "mine-crawl", "none"} -> {"mine"}
      [] lim = "crawl" -> {"crawl"}

\* C36: the phases of main are strictly ordered.  A phase is never gone back
\* to; a phase is left only when no search or fetch of it is under way, and
\* every wait or request under way belongs to the current phase (so the queries
\* of pass 1 are over before any of pass 2, those of pass 2 before any of pass
\* 3, the passes before any mining request); the registry grows only before
\* the first crawl fetch; kept grows only in the crawl, and the sort and the
\* write come with nothing under way and nothing after them.
C36_PhasesOrdered ==
    /\ [][PhaseRank(rpc') >= PhaseRank(rpc)]_vars
    /\ [][rpc' # rpc => (fpc = "none" /\ outstanding = <<>>)]_vars
    /\ [](\A i \in 1 .. Len(outstanding) : rpc \in PhasesOf(outstanding[i].limiter))
    /\ [][nDomains' # nDomains =>
             (rpc \in Passes \cup {"mine"} /\ ridx = 0 /\ nKept = 0
              /\ "crawl" \notin failedKinds)]_vars
    /\ [][nKept' # nKept => (rpc = "crawl" /\ rpc' = "crawl")]_vars
    /\ [][nWritten' # nWritten => (rpc = "crawl" /\ rpc' = "done")]_vars
    /\ [](rpc = "done" => (fpc = "none" /\ outstanding = <<>>))
    /\ [][rpc # "done"]_vars

C36_Witness ==
    /\ rpc = "done"
    /\ runSpec.pass1 = 1
    /\ runSpec.pass2 = 1
    /\ runSpec.pass3 = 1
    /\ runSpec.trust.enabled
    /\ minedAny
    /\ nDomains = 2
    /\ ridx = 2
    /\ nKept = 2
    /\ nWritten = 1


(***************************************************************************)
(* fetchHtml against a server that stalls.                                 *)
(***************************************************************************)
\* fetchHtml has been entered and has not returned
InCall == pc \in {"loop", "limiter_sleep", "fetch", "body", "backoff"}

\* C31 as stated: every fetchHtml call returns in the end, whether the server
\* stalls before the response headers or while it sends the body.
C31_ReturnsDespiteStall == InCall ~> (pc = "returned")


(***************************************************************************)
(* Properties of candidatesFromHit and of the merge of its candidates.     *)
(***************************************************************************)
\* the domain of the hit handled
HitDomain == normalizeDomainFromUrl(hitIn.url)
\* x is one of the strings of xs
OneOf(x, xs) == \E i \in 1 .. Len(xs) : xs[i] = x

\* C34: a hit whose domain is on the directory denylist, or is a subdomain of
\* a denylisted domain, gets no page fetch and no PDF fetch and gives no
\* candidate.
C34_DirectoryHitRejectedUnfetched ==
    (hpc # "idle" /\ HitDomain # <<>> /\ BannedOrSubdomain(HitDomain)) =>
        /\ hitCalls = <<>>
        /\ hitCands = <<>>

C34_Witness ==
    /\ hpc = "mined"
    /\ hitIn.url.host = <<"m", "yelp", "com">>
    /\ isPdfUrl(hitIn.url)
    /\ hitCalls = <<>>
    /\ hitCands = <<>>

\* C35 as stated: every candidate of a hit carries at most 4 evidence strings,
\* the one naming its own firm among them, however many hints (1 to 5) survive.
C35_EvidenceNamesOwnFirm ==
    \A i \in 1 .. Len(hitCands) :
        /\ Len(hitCands[i].evidence) <= EvidenceCap
        /\ OneOf(Mention(hitSource, hitCands[i].firm_name), hitCands[i].evidence)

\* C40: the candidates of one hit (5 at most) all carry the domain and the home
\* URL of the hit's own page; merging them adds at most one candidate to the
\* registry, and when the domain was not in the registry before, the candidate
\* added bears the first hint's firm name as bestTitle.
C40_OneDomainPerHit ==
    /\ Len(hitCands) <= HintsPerHit
    /\ \A i \in 1 .. Len(hitCands) :
          /\ hitCands[i].domain = HitDomain
          /\ hitCands[i].home_url = IF HitDomain # <<>> THEN toHomeUrl(hitIn.url) ELSE NullUrl
          /\ hitCands[i].source_url = hitIn.url
    /\ hpc = "merged" =>
          /\ Len(candidatesByDomain) <= Len(prevRegistry) + 1
          /\ MapKeys(candidatesByDomain) \subseteq MapKeys(prevRegistry) \cup {HitDomain}
          /\ (hitCands # <<>> /\ HitDomain # <<>> /\ ~MapHas(prevRegistry, HitDomain)) =>
                /\ Len(candidatesByDomain) = Len(prevRegistry) + 1
                /\ MapGet(candidatesByDomain, HitDomain).bestTitle = hitCands[1].firm_name
                /\ MapGet(candidatesByDomain, HitDomain).homeUrl = hitCands[1].home_url
                /\ MapGet(candidatesByDomain, HitDomain).origin = "trust-proxy"

C40_Witness ==
    /\ hpc = "merged"
    /\ Len(hitCands) = HintsPerHit
    /\ Len(prevRegistry) = 1
    /\ Len(candidatesByDomain) = 2
    /\ candidatesByDomain[2].value.bestTitle = "Acme Tax"
    /\ Len(candidatesByDomain[2].value.sourceQueries) = HintsPerHit


(***************************************************************************)
(* Pacing across the phases of one run.                                    *)
(***************************************************************************)
\* requests i and j are consecutive requests of the given kind
ConsecutiveOfKind(i, j, kind) ==
    /\ i < j
    /\ reqs[i].kind = kind
    /\ reqs[j].kind = kind
    /\ \A k \in (i + 1) .. (j - 1) : reqs[k].kind # kind

\* C32 as stated: two consecutive search requests of a run, the last of the
\* passes and the first of the mining included, are at least the search interval
\* apart, and two consecutive page fetches (of the mining and of the crawl) at
\* least the crawl interval.
C32_OneLimiterPerChannel ==
    \A i, j \in 1 .. Len(reqs) :
        /\ ConsecutiveOfKind(i, j, "search") => reqs[j].at - reqs[i].at >= SearchIntervalMs
        /\ ConsecutiveOfKind(i, j, "page") => reqs[j].at - reqs[i].at >= CrawlIntervalMs

\* C33 as stated: every request of the miner (search, page, PDF bytes) comes
\* after a wait() on a limiter.
C33_MinerRequestsPaced ==
    \A i \in 1 .. Len(reqs) : reqs[i].by = "mine" => reqs[i].limiter \in LimiterNames

====
